---- MODULE Spec2Model ----
(***************************************************************************)
(* Scryarr: the resolution and deduplication engine.                       *)
(*                                                                         *)
(* The model covers the persistent store (recommendation_history,          *)
(* title_resolution_cache, plex_inventory), the TMDb client with its cache *)
(* (SearchAndResolve) and the resolver loop (Resolver.Resolve).            *)
(*                                                                         *)
(* Time is counted in ticks of one hour of UTC.  A formatted RFC3339 time  *)
(* stamp is the record [wall, off]: the wall-clock reading that is printed *)
(* and the zone offset printed after it ("Z" for offset 0).  SQLite        *)
(* compares the stored TEXT values byte by byte, which StrGE reproduces.   *)
(***************************************************************************)
EXTENDS Integers, Sequences, FiniteSets, TLC

VARIABLES
    clock,              \* the current instant (UTC ticks)
    zone,               \* offset of time.Local from UTC, fixed for the process
    history,            \* table recommendation_history
    cache,              \* table title_resolution_cache, in rowid order
    plexInventory,      \* table plex_inventory (committed rows)
    pc,                 \* position of Resolver.Resolve: idle, loop, done
    recs,               \* llmResp.Recommendations of the run
    categoryLabel,      \* categoryLabel of the run
    idx,                \* index of the next candidate of the range loop
    alreadyRecommended, \* the map[int]bool of the run
    resolved,           \* the slice of ResolvedItem of the run
    result,             \* what Resolve returned: none, output, error
    runs,               \* number of runs of Resolve started so far
    runStart,           \* instant at which the current run started
    histAtStart,        \* the history table as it was when the run started
    ev,                 \* what the last step did (observation only)
    runLog,             \* observation of the current run
    prevRecs,           \* candidate list of the previous run (rerun only)
    prevRun,            \* observation of the previous run (rerun only)
    lastEmit,           \* (label, id) -> start of the run that last emitted it
    faults,             \* number of failed store calls and provider calls so far
    tx,                 \* the call of UpdatePlexInventory in progress
    seen,               \* what a reader last found in plex_inventory
    req,                \* a call of searchMovie / searchTV and what the provider does
    got,                \* what that call returned
    mu,                 \* Orchestrator.mu: the caller that holds it
    callers,            \* position of each caller of Orchestrator.Run
    run,                \* the locals of the call of Run that holds the lock
    jobRuns,            \* table job_run, in id order
    categoryRuns,       \* table category_run, in id order
    published,          \* (label, id, medium) of the items Publish wrote
    responded,          \* the POST /v1/run requests that were answered
    attempted,          \* labels the category loop of the batch reached
    files               \* the resolved JSON file of each category

vars == <<clock, zone, history, cache, plexInventory, pc, recs, categoryLabel,
          idx, alreadyRecommended, resolved, result, runs, runStart,
          histAtStart, ev, runLog, prevRecs, prevRun, lastEmit, faults, tx, seen,
          req, got, mu, callers, run, jobRuns, categoryRuns, published,
          responded, attempted, files>>

searchVars == <<req, got>>

batchVars == <<mu, callers, run, jobRuns, categoryRuns, published, responded,
               attempted, files>>

----------------------------------------------------------------------------
(* Bounds of the model *)

MaxCands == 2
MaxRuns == 2
MaxTZ == 2
MaxInv == 1
MaxItems == 2
MaxFaults == 1
MaxRequests == 2

\* The greatest number of rows of title_resolution_cache.
MaxRows == 2

(* Program constants *)

ExclusionDays == 60

WindowTicks == ExclusionDays * 24

----------------------------------------------------------------------------
(* Inputs *)

Labels == {"True Crime", "Docudrama"}

\* The candidates the generative source may produce.
Candidates ==
    { [title |-> "Heat",  year |-> 1995, medium |-> "movie"],
      [title |-> "heat",  year |-> 1995, medium |-> "Movie"],
      [title |-> "Ronin", year |-> 1995, medium |-> "Show"],
      [title |-> "Zzz",   year |-> 1995, medium |-> "TV"],
      [title |-> "Heat",  year |-> 1995, medium |-> "book"] }

RECURSIVE SeqsUpTo(_, _)
SeqsUpTo(S, n) ==
    IF n = 0 THEN { <<>> }
    ELSE LET shorter == SeqsUpTo(S, n - 1)
         IN  shorter \cup { Append(s, x) : s \in shorter, x \in S }

CandidateLists == SeqsUpTo(Candidates, MaxCands)

Ids == {1, 2}

MediaTypes == {"movie", "tv"}

InventoryKeys == { [tmdb_id |-> 1, media_type |-> m] : m \in MediaTypes }

\* What the library provider may report, and the lists it may hand over.
InventoryRows == { [tmdb_id |-> i, media_type |-> m] : i \in Ids, m \in MediaTypes }

InventoryLists == SeqsUpTo(InventoryRows, MaxItems)

InventorySnapshots == { s \in SUBSET InventoryKeys : Cardinality(s) <= MaxInv }

Zones == { -MaxTZ, 0, MaxTZ }

\* The instants at which something happens: the start, and the instants
\* around the end of the exclusion window.
Times == { 0, WindowTicks - 1, WindowTicks, WindowTicks + 1 }

----------------------------------------------------------------------------
(* Time stamps *)

\* time.Time.Format(time.RFC3339) of instant t in a zone of offset off.
FormatRFC3339(t, off) == [wall |-> t + off, off |-> off]

\* The instant a formatted time stamp denotes.
Instant(ts) == ts.wall - ts.off

\* Order of the zone suffixes as byte strings: "+hh:00" < "-hh:00" < "Z".
SuffixGE(a, b) ==
    CASE a = 0 -> TRUE
      [] b = 0 -> FALSE
      [] a < 0 /\ b > 0 -> TRUE
      [] a > 0 /\ b < 0 -> FALSE
      [] a > 0 /\ b > 0 -> a >= b
      [] OTHER -> (0 - a) >= (0 - b)

\* a >= b on the TEXT values, as SQLite's binary collation compares them.
StrGE(a, b) ==
    \/ a.wall > b.wall
    \/ a.wall = b.wall /\ SuffixGE(a.off, b.off)

\* time.Now().UTC().Format(time.RFC3339)
NowUTC(now) == FormatRFC3339(now, 0)

----------------------------------------------------------------------------
(* internal/store: recommendation_history *)

HistoryKey(r) == <<r.label, r.tmdb_id, r.media_type>>

\* Mutant: INSERT OR REPLACE, which writes a fresh row over the old one and
\* so resets first_seen_at.
RecordRecommendationReplace(h, label, tmdbID, mediaType, now) ==
    { r \in h : HistoryKey(r) # <<label, tmdbID, mediaType>> }
    \cup { [label |-> label, tmdb_id |-> tmdbID, media_type |-> mediaType,
            first_seen_at |-> NowUTC(now), last_seen_at |-> NowUTC(now)] }

\* Mutant: the conflict clause sets first_seen_at instead of last_seen_at.
RecordRecommendationSetsFirst(h, label, tmdbID, mediaType, now) ==
    LET key == <<label, tmdbID, mediaType>>
        old == { r \in h : HistoryKey(r) = key }
    IN  IF old = {}
        THEN h \cup { [label |-> label, tmdb_id |-> tmdbID,
                       media_type |-> mediaType,
                       first_seen_at |-> NowUTC(now),
                       last_seen_at |-> NowUTC(now)] }
        ELSE (h \ old) \cup
             { [r EXCEPT !.first_seen_at = NowUTC(now)] : r \in old }

\* INSERT ... ON CONFLICT(label, tmdb_id, media_type) DO UPDATE SET
\* last_seen_at = now: the table after a successful RecordRecommendation.
RecordRecommendation(h, label, tmdbID, mediaType, now) ==
    LET key == <<label, tmdbID, mediaType>>
        old == { r \in h : HistoryKey(r) = key }
    IN  IF old = {}
        THEN h \cup { [label |-> label, tmdb_id |-> tmdbID,
                       media_type |-> mediaType,
                       first_seen_at |-> NowUTC(now),
                       last_seen_at |-> NowUTC(now)] }
        ELSE (h \ old) \cup
             { [r EXCEPT !.last_seen_at = NowUTC(now)] : r \in old }

\* Mutant: the comparison is turned round (last_seen_at <= ?).
GetRecommendationsSinceInverted(h, label, since) ==
    { r.tmdb_id : r \in { x \in h : x.label = label
                                    /\ StrGE(since, x.last_seen_at) } }

\* Mutant: the query leaves the label out (WHERE last_seen_at >= ?).
GetRecommendationsSinceAnyLabel(h, label, since) ==
    { r.tmdb_id : r \in { x \in h : StrGE(x.last_seen_at, since) } }

\* SELECT tmdb_id FROM recommendation_history WHERE label = ? AND
\* last_seen_at >= ?, the bound being since.Format(time.RFC3339) in the
\* location of since.
GetRecommendationsSince(h, label, since) ==
    { r.tmdb_id : r \in { x \in h : x.label = label
                                    /\ StrGE(x.last_seen_at, since) } }

----------------------------------------------------------------------------
(* internal/store: title_resolution_cache *)

\* Mutant: an upsert on (title, year, media_type): the rows of the key are
\* overwritten when there are any.
CacheTitleResolutionUpsert(c, tr, now) ==
    LET row == [title |-> tr.title, year |-> tr.year,
                media_type |-> tr.media_type, tmdb_id |-> tr.tmdb_id,
                resolved_at |-> NowUTC(now), query |-> tr.query]
        same(i) == /\ c[i].title = tr.title /\ c[i].year = tr.year
                   /\ c[i].media_type = tr.media_type
    IN  IF \E i \in 1..Len(c) : same(i)
        THEN [i \in 1..Len(c) |-> IF same(i) THEN row ELSE c[i]]
        ELSE Append(c, row)

\* INSERT INTO title_resolution_cache: a new row, whatever the table holds.
\* The field query is not a column: it remembers the title that was asked
\* for when the row was written.
CacheTitleResolution(c, tr, now) ==
    Append(c, [title |-> tr.title, year |-> tr.year,
               media_type |-> tr.media_type, tmdb_id |-> tr.tmdb_id,
               resolved_at |-> NowUTC(now), query |-> tr.query])

\* SELECT ... WHERE title = ? AND year = ? AND media_type = ? ORDER BY
\* resolved_at DESC LIMIT 1: the rows the query may return (none on
\* sql.ErrNoRows; any of the rows that share the greatest resolved_at).
GetTitleResolution(c, title, year, mediaType) ==
    LET match == { i \in 1..Len(c) : /\ c[i].title = title
                                     /\ c[i].year = year
                                     /\ c[i].media_type = mediaType }
    IN  { c[i] : i \in { j \in match :
                           \A k \in match :
                               StrGE(c[j].resolved_at, c[k].resolved_at) } }

----------------------------------------------------------------------------
(* internal/store: plex_inventory *)

\* Mutant: the query leaves the media type out (WHERE tmdb_id = ?).
IsInPlexInventoryAnyType(inv, tmdbID, mediaType) ==
    Cardinality({ e \in inv : e.tmdb_id = tmdbID }) > 0

\* SELECT COUNT(*) FROM plex_inventory WHERE tmdb_id = ? AND media_type = ?
IsInPlexInventory(inv, tmdbID, mediaType) ==
    Cardinality({ e \in inv : e.tmdb_id = tmdbID
                              /\ e.media_type = mediaType }) > 0

\* Mutant: the statements of UpdatePlexInventory run on s.db, outside any
\* transaction, so that each one is visible as soon as it is executed.
VisibleDirty(committed, working) == working

\* The rows of plex_inventory a statement outside the transaction finds
\* while the transaction is open: the committed ones (the statements of
\* UpdatePlexInventory run on tx, not on s.db).
Visible(committed, working) == committed

NotSeen == [valid |-> FALSE, rows |-> {}, at |-> "none"]

NoTx == [pc |-> "none", items |-> << >>, next |-> 0, rows |-> {}, old |-> {}]

InventoryRow(item) == [tmdb_id |-> item.tmdb_id, media_type |-> item.media_type]

\* UpdatePlexInventory(items) is called: s.db.Begin() succeeds or fails.
BeginUpdate(items) ==
    /\ pc = "idle"
    /\ tx.pc \in {"none", "ok", "err"}
    /\ \E ok \in BOOLEAN :
          tx' = [pc |-> IF ok THEN "begun" ELSE "err", items |-> items,
                 next |-> 1, rows |-> plexInventory, old |-> plexInventory]
    /\ seen' = NotSeen
    /\ UNCHANGED plexInventory

\* tx.Exec("DELETE FROM plex_inventory"), then tx.Prepare of the INSERT.
TxDelete ==
    /\ tx.pc = "begun"
    /\ \/ tx' = [tx EXCEPT !.pc = "inserting", !.rows = {}]
       \/ \* the DELETE fails: return err, the deferred Rollback runs
          tx' = [tx EXCEPT !.pc = "err", !.rows = tx.old]
       \/ \* the Prepare fails after the DELETE: the same
          tx' = [tx EXCEPT !.pc = "err", !.rows = tx.old]
    /\ UNCHANGED plexInventory

\* stmt.Exec of the next item: the row is inserted unless the unique index
\* on (tmdb_id, media_type) or the CHECK on media_type refuses it, or the
\* statement fails; on an error the deferred Rollback runs.
TxInsert ==
    /\ tx.pc = "inserting"
    /\ tx.next <= Len(tx.items)
    /\ LET row == InventoryRow(tx.items[tx.next])
       IN  \/ /\ row \notin tx.rows
              /\ row.media_type \in {"movie", "tv"}
              /\ tx' = [tx EXCEPT !.rows = @ \cup {row}, !.next = @ + 1]
           \/ tx' = [tx EXCEPT !.pc = "err", !.rows = tx.old]
    /\ UNCHANGED plexInventory

\* tx.Commit(): the rows of the transaction become the table, or the commit
\* fails and the transaction is rolled back.
TxCommit ==
    /\ tx.pc = "inserting"
    /\ tx.next > Len(tx.items)
    /\ \/ /\ tx' = [tx EXCEPT !.pc = "ok"]
          /\ plexInventory' = tx.rows
       \/ /\ tx' = [tx EXCEPT !.pc = "err", !.rows = tx.old]
          /\ UNCHANGED plexInventory

\* A reader asks IsInPlexInventory for every key, in one read of the table;
\* at remembers where UpdatePlexInventory stood at the read.
ReadInventory ==
    /\ seen' = [valid |-> TRUE,
                rows |-> { k \in InventoryRows :
                             IsInPlexInventory(
                                 IF tx.pc \in {"begun", "inserting"}
                                 THEN Visible(plexInventory, tx.rows)
                                 ELSE plexInventory,
                                 k.tmdb_id, k.media_type) },
                at |-> tx.pc]
    /\ UNCHANGED <<plexInventory, tx>>

----------------------------------------------------------------------------
(* internal/tmdb *)

\* The catalog provider's answer to a search (GetSearchMovies for movie,
\* GetSearchTVShow for tv): the list of results, best match first.  The
\* provider matches titles without regard to case and answers with the
\* title as the catalog spells it.
SearchResults(title, mediaType) ==
    CASE title \in {"Heat", "heat"} ->
             << [id |-> 1, title |-> "Heat", vote_count |-> 7] >>
      [] title = "Ronin" ->
             << [id |-> 2, title |-> "Ronin", vote_count |-> 5],
                [id |-> 1, title |-> "Ronin Returns", vote_count |-> 3] >>
      [] OTHER -> << >>

NoTitle == [tmdb_id |-> 0, title |-> "", year |-> 0, media_type |-> ""]

\* searchMovie / searchTV once the search call has answered with results:
\* the first result is the match; Year is the year asked for.
FirstMatch(results, year, mediaType) ==
    [tmdb_id |-> results[1].id, title |-> results[1].title,
     year |-> year, media_type |-> mediaType]

\* What the provider holds for a title: GetMovieDetails / GetTVDetails and
\* GetMovieKeywords / GetTVKeywords of an id.
MovieDetails(id) ==
    IF id = 1
    THEN [imdb_id |-> "tt0113277", runtime |-> 170,
          genres |-> <<"Crime", "Drama">>, production_countries |-> <<"US">>]
    ELSE [imdb_id |-> "tt0122690", runtime |-> 122,
          genres |-> <<"Action">>, production_countries |-> << >>]

TVDetails(id) ==
    IF id = 1
    THEN [genres |-> <<"Crime">>, episode_run_time |-> << >>,
          origin_country |-> <<"US">>]
    ELSE [genres |-> <<"Drama">>, episode_run_time |-> <<45, 60>>,
          origin_country |-> <<"JP", "US">>]

Keywords(id) == IF id = 1 THEN <<"heist", "los angeles">> ELSE <<"samurai">>

SearchFailed ==
    [ok |-> FALSE, tmdb_id |-> 0, imdb_id |-> "", title |-> "", year |-> 0,
     media_type |-> "", vote_count |-> 0, keywords |-> << >>,
     genres |-> << >>, runtime_min |-> 0, country |-> ""]

\* Mutant: an error of the details call is returned to the caller.
searchMovieStrict(title, year, searchOK, detailsOK, keywordsOK) ==
    LET results == SearchResults(title, "movie")
    IN  IF ~searchOK \/ Len(results) = 0 \/ ~detailsOK
        THEN SearchFailed
        ELSE LET movie == results[1]
                 details == MovieDetails(movie.id)
             IN  [ok |-> TRUE, tmdb_id |-> movie.id, imdb_id |-> details.imdb_id,
                  title |-> movie.title, year |-> year, media_type |-> "movie",
                  vote_count |-> movie.vote_count,
                  keywords |-> IF keywordsOK THEN Keywords(movie.id) ELSE << >>,
                  genres |-> details.genres,
                  runtime_min |-> details.runtime,
                  country |-> IF Len(details.production_countries) > 0
                              THEN details.production_countries[1] ELSE ""]

\* searchMovie(title, year): the search call, then the details call and the
\* keywords call for the first result; searchOK, detailsOK and keywordsOK
\* tell which of the three calls succeed.
searchMovie(title, year, searchOK, detailsOK, keywordsOK) ==
    LET results == SearchResults(title, "movie")
    IN  IF ~searchOK \/ Len(results) = 0
        THEN SearchFailed
        ELSE LET movie == results[1]
                 details == MovieDetails(movie.id)
             IN  [ok |-> TRUE, tmdb_id |-> movie.id,
                  imdb_id |-> IF detailsOK THEN details.imdb_id ELSE "",
                  title |-> movie.title, year |-> year, media_type |-> "movie",
                  vote_count |-> movie.vote_count,
                  keywords |-> IF keywordsOK THEN Keywords(movie.id) ELSE << >>,
                  genres |-> IF detailsOK THEN details.genres ELSE << >>,
                  runtime_min |-> IF detailsOK THEN details.runtime ELSE 0,
                  country |-> IF detailsOK
                                 /\ Len(details.production_countries) > 0
                              THEN details.production_countries[1] ELSE ""]

\* searchTV(title, year): the same for a show; no external id is set.
searchTV(title, year, searchOK, detailsOK, keywordsOK) ==
    LET results == SearchResults(title, "tv")
    IN  IF ~searchOK \/ Len(results) = 0
        THEN SearchFailed
        ELSE LET show == results[1]
                 details == TVDetails(show.id)
             IN  [ok |-> TRUE, tmdb_id |-> show.id, imdb_id |-> "",
                  title |-> show.title, year |-> year, media_type |-> "tv",
                  vote_count |-> show.vote_count,
                  keywords |-> IF keywordsOK THEN Keywords(show.id) ELSE << >>,
                  genres |-> IF detailsOK THEN details.genres ELSE << >>,
                  runtime_min |-> IF detailsOK
                                     /\ Len(details.episode_run_time) > 0
                                  THEN details.episode_run_time[1] ELSE 0,
                  country |-> IF detailsOK /\ Len(details.origin_country) > 0
                              THEN details.origin_country[1] ELSE ""]

NoRequest ==
    [title |-> "", year |-> 0, media_type |-> "", searchOK |-> FALSE,
     detailsOK |-> FALSE, keywordsOK |-> FALSE]

\* hit: the result came from the cache; readOK: the cache read did not fail.
NotCalled ==
    [valid |-> FALSE, res |-> SearchFailed, hit |-> FALSE, readOK |-> TRUE]

\* The calls of searchMovie and searchTV that are made, with what the
\* provider does to each of their three calls.
SearchRequests ==
    [title : { c.title : c \in Candidates }, year : {1995},
     media_type : MediaTypes, searchOK : BOOLEAN, detailsOK : BOOLEAN,
     keywordsOK : BOOLEAN]

\* SearchAndResolve past the cache: searchMovie or searchTV is called.
CallSearch ==
    /\ req # NoRequest
    /\ ~got.valid
    /\ got' = [valid |-> TRUE,
               res |-> IF req.media_type = "movie"
                       THEN searchMovie(req.title, req.year, req.searchOK,
                                        req.detailsOK, req.keywordsOK)
                       ELSE searchTV(req.title, req.year, req.searchOK,
                                     req.detailsOK, req.keywordsOK),
               hit |-> FALSE, readOK |-> TRUE]
    /\ UNCHANGED req

\* The next call.
NextRequest ==
    /\ got.valid \/ req = NoRequest
    /\ req' \in SearchRequests
    /\ got' = NotCalled

\* getCached: the TitleResult built from a cache row.
FromCache(row) ==
    [tmdb_id |-> row.tmdb_id, title |-> row.title, year |-> row.year,
     media_type |-> row.media_type]

\* cacheResult: the TitleResolution handed to CacheTitleResolution.
ToCacheEntry(res, queryTitle) ==
    [title |-> res.title, year |-> res.year, media_type |-> res.media_type,
     tmdb_id |-> res.tmdb_id, query |-> queryTitle]

\* The instants of the calls of SearchAndResolve.
CacheTimes == {0, 1}

\* The calls of SearchAndResolve that are made: a title the catalog spells
\* the same way, one it spells otherwise, and one it does not have.
CacheRequests ==
    { r \in SearchRequests : r.title \in {"Heat", "heat", "Zzz"}
                             /\ r.keywordsOK }

\* Mutant: cacheResult does not copy RuntimeMin.
cacheResultNoRuntime(c, res, now) ==
    Append(c, [title |-> res.title, year |-> res.year,
               media_type |-> res.media_type, tmdb_id |-> res.tmdb_id,
               imdb_id |-> res.imdb_id, country |-> res.country,
               runtime_min |-> 0, resolved_at |-> NowUTC(now),
               fresh |-> [tmdb_id |-> res.tmdb_id,
                          imdb_id |-> res.imdb_id,
                          country |-> res.country,
                          runtime_min |-> res.runtime_min]])

\* cacheResult(result) with every column of the table: the TitleResolution
\* built from the result, and the INSERT of CacheTitleResolution.  The field
\* fresh is not a column: it remembers what the resolution that wrote the
\* row returned.
cacheResult(c, res, now) ==
    Append(c, [title |-> res.title, year |-> res.year,
               media_type |-> res.media_type, tmdb_id |-> res.tmdb_id,
               imdb_id |-> res.imdb_id, country |-> res.country,
               runtime_min |-> res.runtime_min,
               resolved_at |-> NowUTC(now),
               fresh |-> [tmdb_id |-> res.tmdb_id,
                          imdb_id |-> res.imdb_id,
                          country |-> res.country,
                          runtime_min |-> res.runtime_min]])

\* Mutant: a row without runtime, country and external id is not used, so
\* that the provider is asked again.
getCachedSkipsDegraded(c, title, year, mediaType) ==
    { [ok |-> TRUE, tmdb_id |-> cached.tmdb_id, imdb_id |-> cached.imdb_id,
       title |-> cached.title, year |-> cached.year,
       media_type |-> cached.media_type, vote_count |-> 0,
       keywords |-> << >>, genres |-> << >>,
       runtime_min |-> cached.runtime_min, country |-> cached.country]
      : cached \in { row \in GetTitleResolution(c, title, year, mediaType) :
                        ~(/\ row.runtime_min = 0 /\ row.country = ""
                          /\ row.imdb_id = "") } }

\* getCached(title, year, mediaType) with every field of the TitleResult:
\* the results it may return, none when GetTitleResolution finds no row.
\* Overview, Genres, Keywords, VoteCount and VoteAvg are left at their zero
\* values.
getCached(c, title, year, mediaType) ==
    { [ok |-> TRUE, tmdb_id |-> cached.tmdb_id, imdb_id |-> cached.imdb_id,
       title |-> cached.title, year |-> cached.year,
       media_type |-> cached.media_type, vote_count |-> 0,
       keywords |-> << >>, genres |-> << >>,
       runtime_min |-> cached.runtime_min, country |-> cached.country]
      : cached \in GetTitleResolution(c, title, year, mediaType) }

\* SearchAndResolve(r.title, r.year, r.media_type) as a whole, on the table
\* with every column: the cache is read (an error counts as a miss); on a
\* miss searchMovie or searchTV is called and its result, if any, is written
\* to the cache (an error of the write is only logged).  req and got keep
\* the call and what it returned.
SearchAndResolveCall(r) ==
    /\ req' = r
    /\ \E readOK, writeOK \in BOOLEAN :
          LET failures == (IF readOK THEN 0 ELSE 1)
                          + (IF writeOK THEN 0 ELSE 1)
              hits == IF readOK
                      THEN getCached(cache, r.title, r.year,
                                     r.media_type)
                      ELSE {}
              res == CASE r.media_type = "movie" ->
                              searchMovie(r.title, r.year, r.searchOK,
                                          r.detailsOK, r.keywordsOK)
                       [] r.media_type = "tv" ->
                              searchTV(r.title, r.year, r.searchOK,
                                       r.detailsOK, r.keywordsOK)
                       [] OTHER -> SearchFailed
              writes == hits = {} /\ res.ok
          IN  /\ ~writeOK => writes
              /\ faults + failures <= MaxFaults
              /\ faults' = faults + failures
              /\ (writes /\ writeOK) => Len(cache) < MaxRows
              /\ IF hits # {}
                 THEN /\ \E h \in hits :
                            got' = [valid |-> TRUE, res |-> h, hit |-> TRUE,
                                    readOK |-> readOK]
                      /\ cache' = cache
                 ELSE /\ got' = [valid |-> TRUE, res |-> res, hit |-> FALSE,
                                 readOK |-> readOK]
                      /\ cache' = IF res.ok /\ writeOK
                                  THEN cacheResult(cache, res, clock)
                                  ELSE cache
    /\ UNCHANGED clock

\* Time passes between two calls.
Later ==
    /\ \E t \in CacheTimes : t > clock /\ clock' = t
    /\ UNCHANGED <<req, got, cache, faults>>

\* The outcomes of SearchAndResolve(title, year, mediaType) on cache c at
\* instant now.  ok: no error returned; res: the TitleResult; cache: the
\* table afterwards; searched: an external search call was made; wrote: a
\* cache row was written; fault: a store call or the search call failed.
\* With mayFail false, only the outcomes without such a failure.
SearchAndResolve(c, title, year, mediaType, now, mayFail) ==
    LET hits == GetTitleResolution(c, title, year, mediaType)
        fromCache ==
            { [ok |-> TRUE, res |-> FromCache(row), cache |-> c,
               searched |-> FALSE, wrote |-> FALSE, fault |-> FALSE]
              : row \in hits }
        failed(s, f) ==
            [ok |-> FALSE, res |-> NoTitle, cache |-> c,
             searched |-> s, wrote |-> FALSE, fault |-> f]
        \* the cache gave nothing (readFault: GetTitleResolution failed)
        fromProvider(readFault) ==
            IF mediaType \notin {"movie", "tv"}
            THEN { failed(FALSE, readFault) }
            ELSE LET results == SearchResults(title, mediaType)
                 IN  \* the search call fails
                     (IF mayFail /\ ~readFault
                      THEN { failed(TRUE, TRUE) } ELSE {})
                     \cup
                     (IF Len(results) = 0
                      THEN { failed(TRUE, readFault) }
                      ELSE LET res == FirstMatch(results, year, mediaType)
                           IN  { [ok |-> TRUE, res |-> res,
                                  cache |-> CacheTitleResolution(
                                      c, ToCacheEntry(res, title), now),
                                  searched |-> TRUE, wrote |-> TRUE,
                                  fault |-> readFault] }
                               \cup
                               \* CacheTitleResolution fails
                               (IF mayFail /\ ~readFault
                                THEN { [ok |-> TRUE, res |-> res, cache |-> c,
                                        searched |-> TRUE, wrote |-> FALSE,
                                        fault |-> TRUE] }
                                ELSE {}))
    IN  (IF hits = {} THEN fromProvider(FALSE) ELSE fromCache)
        \cup (IF mayFail /\ hits # {} THEN fromProvider(TRUE) ELSE {})

----------------------------------------------------------------------------
(* resolve: Resolver.Resolve *)

\* strings.ToLower on the medium values the candidates carry.
ToLower(s) ==
    CASE s = "Movie" -> "movie"
      [] s = "TV" -> "tv"
      [] s = "Show" -> "show"
      [] s = "Series" -> "series"
      [] OTHER -> s

\* Mutant: the synonyms are not mapped.
NormalizeMediumNoSynonyms(medium) == ToLower(medium)

\* mediaType := strings.ToLower(rec.Medium); show and series become tv.
NormalizeMedium(medium) ==
    LET mediaType == ToLower(medium)
    IN  IF mediaType = "show" \/ mediaType = "series" THEN "tv" ELSE mediaType

\* since := time.Now().AddDate(0, 0, -60), formatted by
\* GetRecommendationsSince in the location of time.Now(), which is Local.
SinceBound(now, off) == FormatRFC3339(now - WindowTicks, off)

\* The ResolvedItem built from a result; src is the index of the candidate
\* it came from (the candidate whose Why and Keywords it carries).
ResolvedItem(res, mediaType, i) ==
    [title |-> res.title, year |-> res.year, medium |-> mediaType,
     tmdb_id |-> res.tmdb_id, src |-> i]

NoEvent ==
    [op |-> "none", idx |-> 0, outcome |-> "", tmdb_id |-> 0,
     searched |-> FALSE, wrote |-> FALSE, recorded |-> FALSE]

NoRun ==
    [valid |-> FALSE, result |-> "none", resFailed |-> {},
     histReadFault |-> FALSE, invReadFault |-> FALSE, writeFault |-> FALSE,
     finishedAt |-> 0]

NoEmit == 0 - 1

Count(b) == IF b THEN 1 ELSE 0

\* Mutant: Resolve returns the error of the history read.
ResolveEntryFailClosed(list, label) ==
    /\ tx.pc = "none"
    /\ runs < MaxRuns
    /\ \E readOK \in BOOLEAN :
        /\ faults + Count(~readOK) <= MaxFaults
        /\ alreadyRecommended' =
              IF readOK
              THEN GetRecommendationsSince(history, label,
                                           SinceBound(clock, zone))
              ELSE {}
        /\ faults' = faults + Count(~readOK)
        /\ runLog' = [NoRun EXCEPT !.valid = TRUE, !.histReadFault = ~readOK,
                                   !.result = IF readOK THEN "none" ELSE "error"]
        /\ result' = IF readOK THEN "none" ELSE "error"
        /\ pc' = IF readOK THEN "loop" ELSE "done"
    /\ recs' = list
    /\ categoryLabel' = label
    /\ idx' = 1
    /\ resolved' = << >>
    /\ runs' = runs + 1
    /\ runStart' = clock
    /\ histAtStart' = history
    /\ ev' = [NoEvent EXCEPT !.op = "start"]
    /\ UNCHANGED <<clock, zone, history, cache, plexInventory, lastEmit, tx, seen>>

\* Entry of Resolve up to the range loop: the history of the last 60 days is
\* read; when the read fails the run goes on with an empty map.
ResolveEntry(list, label) ==
    /\ tx.pc = "none"
    /\ runs < MaxRuns
    /\ \E readOK \in BOOLEAN :
        /\ faults + Count(~readOK) <= MaxFaults
        /\ alreadyRecommended' =
              IF readOK
              THEN GetRecommendationsSince(history, label,
                                           SinceBound(clock, zone))
              ELSE {}
        /\ faults' = faults + Count(~readOK)
        /\ runLog' = [NoRun EXCEPT !.valid = TRUE, !.histReadFault = ~readOK]
    /\ recs' = list
    /\ categoryLabel' = label
    /\ idx' = 1
    /\ resolved' = << >>
    /\ result' = "none"
    /\ pc' = "loop"
    /\ runs' = runs + 1
    /\ runStart' = clock
    /\ histAtStart' = history
    /\ ev' = [NoEvent EXCEPT !.op = "start"]
    /\ UNCHANGED <<clock, zone, history, cache, plexInventory, lastEmit, tx, seen>>

\* A call of Resolve on a candidate list of the generative source.
StartResolve(list, label) ==
    /\ pc = "idle"
    /\ ResolveEntry(list, label)
    /\ UNCHANGED <<prevRecs, prevRun>>

\* A call of Resolve on the candidate list and category of the run that has
\* just returned.
Rerun ==
    /\ pc = "done"
    /\ ResolveEntry(recs, categoryLabel)
    /\ prevRecs' = recs
    /\ prevRun' = runLog

\* Mutant: a candidate that resolved is recorded before the exclusion filter
\* is asked, so that a skipped candidate bumps last_seen_at.
SkipRecorded(sar, outcome) ==
    /\ ev' = [NoEvent EXCEPT !.op = "step", !.idx = idx,
                             !.outcome = outcome,
                             !.tmdb_id = sar.res.tmdb_id,
                             !.searched = sar.searched, !.wrote = sar.wrote]
    /\ history' = IF sar.ok
                  THEN RecordRecommendation(history, categoryLabel,
                                            sar.res.tmdb_id,
                                            NormalizeMedium(recs[idx].medium),
                                            clock)
                  ELSE history
    /\ UNCHANGED <<alreadyRecommended, resolved, lastEmit>>

\* The candidate is skipped (continue): nothing but the loop index, the
\* cache and the observations change.
Skip(sar, outcome) ==
    /\ ev' = [NoEvent EXCEPT !.op = "step", !.idx = idx,
                             !.outcome = outcome,
                             !.tmdb_id = sar.res.tmdb_id,
                             !.searched = sar.searched, !.wrote = sar.wrote]
    /\ UNCHANGED <<history, alreadyRecommended, resolved, lastEmit>>

\* Mutant: the id is not added to the map of the run.
EmitNoMark(sar, mediaType, recOK) ==
    /\ resolved' = Append(resolved, ResolvedItem(sar.res, mediaType, idx))
    /\ history' = IF recOK
                  THEN RecordRecommendation(history, categoryLabel,
                                            sar.res.tmdb_id, mediaType, clock)
                  ELSE history
    /\ UNCHANGED alreadyRecommended
    /\ lastEmit' = [lastEmit EXCEPT
                      ![<<categoryLabel, sar.res.tmdb_id>>] = runStart]
    /\ ev' = [NoEvent EXCEPT !.op = "step", !.idx = idx,
                             !.outcome = "emitted",
                             !.tmdb_id = sar.res.tmdb_id,
                             !.searched = sar.searched, !.wrote = sar.wrote,
                             !.recorded = recOK]

\* Mutant: the item is put in front of the slice.
EmitPrepend(sar, mediaType, recOK) ==
    /\ resolved' = <<ResolvedItem(sar.res, mediaType, idx)>> \o resolved
    /\ history' = IF recOK
                  THEN RecordRecommendation(history, categoryLabel,
                                            sar.res.tmdb_id, mediaType, clock)
                  ELSE history
    /\ alreadyRecommended' = alreadyRecommended \cup {sar.res.tmdb_id}
    /\ lastEmit' = [lastEmit EXCEPT
                      ![<<categoryLabel, sar.res.tmdb_id>>] = runStart]
    /\ ev' = [NoEvent EXCEPT !.op = "step", !.idx = idx,
                             !.outcome = "emitted",
                             !.tmdb_id = sar.res.tmdb_id,
                             !.searched = sar.searched, !.wrote = sar.wrote,
                             !.recorded = recOK]

\* Mutant: the item is appended only when the history write succeeded.
EmitIfRecorded(sar, mediaType, recOK) ==
    /\ resolved' = IF recOK
                   THEN Append(resolved, ResolvedItem(sar.res, mediaType, idx))
                   ELSE resolved
    /\ history' = IF recOK
                  THEN RecordRecommendation(history, categoryLabel,
                                            sar.res.tmdb_id, mediaType, clock)
                  ELSE history
    /\ alreadyRecommended' = alreadyRecommended \cup {sar.res.tmdb_id}
    /\ lastEmit' = [lastEmit EXCEPT
                      ![<<categoryLabel, sar.res.tmdb_id>>] = runStart]
    /\ ev' = [NoEvent EXCEPT !.op = "step", !.idx = idx,
                             !.outcome = "emitted",
                             !.tmdb_id = sar.res.tmdb_id,
                             !.searched = sar.searched, !.wrote = sar.wrote,
                             !.recorded = recOK]

\* The candidate survives: the item is appended, the history row is written
\* (recOK: the write succeeds) and the id is added to the map.
\* Mutant: the item carries rec.Medium as the candidate spells it.
EmitRawMedium(sar, mediaType, recOK) ==
    /\ resolved' = Append(resolved,
                          ResolvedItem(sar.res, recs[idx].medium, idx))
    /\ history' = IF recOK
                  THEN RecordRecommendation(history, categoryLabel,
                                            sar.res.tmdb_id, mediaType, clock)
                  ELSE history
    /\ alreadyRecommended' = alreadyRecommended \cup {sar.res.tmdb_id}
    /\ lastEmit' = [lastEmit EXCEPT
                      ![<<categoryLabel, sar.res.tmdb_id>>] = runStart]
    /\ ev' = [NoEvent EXCEPT !.op = "step", !.idx = idx,
                             !.outcome = "emitted",
                             !.tmdb_id = sar.res.tmdb_id,
                             !.searched = sar.searched, !.wrote = sar.wrote,
                             !.recorded = recOK]

Emit(sar, mediaType, recOK) ==
    /\ resolved' = Append(resolved, ResolvedItem(sar.res, mediaType, idx))
    /\ history' = IF recOK
                  THEN RecordRecommendation(history, categoryLabel,
                                            sar.res.tmdb_id, mediaType, clock)
                  ELSE history
    /\ alreadyRecommended' = alreadyRecommended \cup {sar.res.tmdb_id}
    /\ lastEmit' = [lastEmit EXCEPT
                      ![<<categoryLabel, sar.res.tmdb_id>>] = runStart]
    /\ ev' = [NoEvent EXCEPT !.op = "step", !.idx = idx,
                             !.outcome = "emitted",
                             !.tmdb_id = sar.res.tmdb_id,
                             !.searched = sar.searched, !.wrote = sar.wrote,
                             !.recorded = recOK]

\* Mutant: a candidate that does not resolve ends the loop.
NextIndexAbort(ok, i, n) == IF ok THEN i + 1 ELSE n + 1

\* Mutant: a candidate that does not resolve is tried again.
NextIndexRetry(ok, i, n) == IF ok THEN i + 1 ELSE i

\* The range loop goes on with the next candidate, whether the body ran to
\* its end or left by continue.
NextIndex(ok, i, n) == i + 1

\* One iteration of the range loop, for candidate recs[idx].
ResolveStep ==
    /\ pc = "loop"
    /\ idx <= Len(recs)
    /\ LET rec == recs[idx]
           mediaType == NormalizeMedium(rec.medium)
       IN  \E sar \in SearchAndResolve(cache, rec.title, rec.year, mediaType,
                                       clock, faults < MaxFaults) :
           /\ cache' = sar.cache
           /\ idx' = NextIndex(sar.ok, idx, Len(recs))
           /\ \/ \* SearchAndResolve returned an error
                 /\ ~sar.ok
                 /\ Skip(sar, "unresolved")
                 /\ faults' = faults + Count(sar.fault)
                 /\ runLog' = [runLog EXCEPT !.resFailed = @ \cup {idx}]
              \/ \* already recommended
                 /\ sar.ok
                 /\ sar.res.tmdb_id \in alreadyRecommended
                 /\ Skip(sar, "duplicate")
                 /\ faults' = faults + Count(sar.fault)
                 /\ UNCHANGED runLog
              \/ \* not in the map: the inventory is asked (invOK: the query
                 \* succeeds; when it fails inPlex is false)
                 /\ sar.ok
                 /\ sar.res.tmdb_id \notin alreadyRecommended
                 /\ \E invOK \in BOOLEAN, recOK \in BOOLEAN :
                    LET inPlex == invOK /\ IsInPlexInventory(
                                      plexInventory, sar.res.tmdb_id, mediaType)
                        n == Count(sar.fault) + Count(~invOK)
                             + Count(~inPlex /\ ~recOK)
                    IN  /\ faults + n <= MaxFaults
                        /\ faults' = faults + n
                        /\ IF inPlex
                           THEN /\ recOK
                                /\ Skip(sar, "in_plex")
                                /\ UNCHANGED runLog
                           ELSE /\ Emit(sar, mediaType, recOK)
                                /\ runLog' = [runLog EXCEPT
                                        !.invReadFault = @ \/ ~invOK,
                                        !.writeFault = @ \/ ~recOK]
    /\ UNCHANGED <<clock, zone, plexInventory, pc, recs, categoryLabel,
                   result, runs, runStart, histAtStart, prevRecs, prevRun, tx, seen>>

\* Mutant: an output is returned whatever was resolved.
ResolveOutcomeAlways(items) == "output"

\* After the loop: the error when nothing was resolved, else the output.
ResolveOutcome(items) == IF Len(items) = 0 THEN "error" ELSE "output"

FinishResolve ==
    /\ pc = "loop"
    /\ idx > Len(recs)
    /\ result' = ResolveOutcome(resolved)
    /\ pc' = "done"
    /\ runLog' = [runLog EXCEPT !.result = ResolveOutcome(resolved),
                                !.finishedAt = clock]
    /\ ev' = [NoEvent EXCEPT !.op = "finish"]
    /\ UNCHANGED <<clock, zone, history, cache, plexInventory, recs,
                   categoryLabel, idx, alreadyRecommended, resolved, runs,
                   runStart, histAtStart, prevRecs, prevRun, lastEmit,
                   faults, tx, seen>>

\* The caller is done with what Resolve returned: the locals of the run are
\* gone.
Return ==
    /\ pc = "done"
    /\ pc' = "idle"
    /\ recs' = << >>
    /\ categoryLabel' = ""
    /\ idx' = 0
    /\ alreadyRecommended' = {}
    /\ resolved' = << >>
    /\ result' = "none"
    /\ histAtStart' = {}
    /\ runStart' = 0
    /\ runLog' = NoRun
    /\ ev' = NoEvent
    /\ UNCHANGED <<clock, zone, history, cache, plexInventory, runs,
                   prevRecs, prevRun, lastEmit, faults, tx, seen>>

\* Time passes between two runs (a run takes less than one tick).
Tick ==
    /\ pc = "idle"
    /\ 0 < runs /\ runs < MaxRuns
    /\ \E t \in Times : t > clock /\ clock' = t
    /\ ev' = NoEvent
    /\ UNCHANGED <<zone, history, cache, plexInventory, pc, recs,
                   categoryLabel, idx, alreadyRecommended, resolved, result,
                   runs, runStart, histAtStart, runLog, prevRecs, prevRun,
                   lastEmit, faults, tx, seen>>

----------------------------------------------------------------------------
(* cmd/worker: Orchestrator.Run and its callers *)

\* The configured categories, in the order of the configuration file.
Categories == <<"True Crime", "Docudrama">>

\* The callers of Run: 0 is the main goroutine (the oneshot call, or the
\* cron job), 1..MaxRequests are the goroutines of POST /v1/run requests.
Callers == 0..MaxRequests

Unlocked == 0 - 1

\* What the batch fetched from the library provider and what it did to the
\* inventory table (not a local of Run either; forgotten when the category
\* loop starts).
NoFetch ==
    [valid |-> FALSE, moviesOK |-> FALSE, showsOK |-> FALSE, items |-> << >>,
     storeOK |-> FALSE, old |-> {}]

\* failed is not a local of Run: it remembers the categories of the batch
\* for which processCategory returned an error.
NoBatch ==
    [pc |-> "none", by |-> Unlocked, jobID |-> 0, cat |-> 0, catRunID |-> 0,
     err |-> FALSE, failed |-> {}, fetch |-> NoFetch]

\* A column that is NULL.
Null == << >>

\* No file at the path.
NoFile == [exists |-> FALSE, items |-> << >>]

\* Mutant: Run does not wait for the lock.
MutexFreeAlways(m) == TRUE

\* o.mu.Lock() returns when no caller holds the lock.
MutexFree(m) == m = Unlocked

\* UPDATE category_run SET status = ?, ..., resolved_json_path = ?, ...
\* WHERE id = ? (ok: the statement succeeds); updates counts the statements
\* that changed the row.
UpdateCategoryRun(rows, id, status, resolvedJSON, ok) ==
    IF ok
    THEN [rows EXCEPT ![id].status = status,
                      ![id].resolved_json_path = resolvedJSON,
                      ![id].updates = @ + 1]
    ELSE rows

NoCategoryRun ==
    [job_id |-> 0, label |-> "", status |-> "", resolved_json_path |-> Null,
     updates |-> 0]

\* SELECT ... FROM category_run WHERE label = ? ORDER BY id DESC LIMIT 1
\* (NoCategoryRun: sql.ErrNoRows, nil is returned).
GetLatestCategoryRun(rows, label) ==
    LET ofLabel == { i \in 1..Len(rows) : rows[i].label = label }
    IN  IF ofLabel = {}
        THEN NoCategoryRun
        ELSE rows[CHOOSE i \in ofLabel : \A j \in ofLabel : j <= i]

\* sanitizeFilename of the configured labels: lower case, spaces replaced by
\* underscores.
sanitizeFilename(label) ==
    CASE label = "True Crime" -> "true_crime"
      [] label = "Docudrama" -> "docudrama"
      [] OTHER -> ""

\* writeResolvedJSON: the path of the resolved JSON file of a category, the
\* same at every publication.
ResolvedJSONPath(label) == <<"resolved", sanitizeFilename(label), "json">>

\* The paths of the resolved JSON files.
ResolvedJSONPaths == { ResolvedJSONPath(l) : l \in Labels }

\* The resolved JSON written for an output.
ResolvedJSON(items) ==
    [exists |-> TRUE,
     items |-> [k \in 1..Len(items) |->
                   [tmdb_id |-> items[k].tmdb_id, medium |-> items[k].medium]]]

\* generatePMMYAMLs, first loop: the ids of the items with medium movie and
\* of those with medium tv, in the order of the output; an item with another
\* medium goes to neither list.
generatePMMYAMLs(items) ==
    LET idsOf(m) ==
            LET sel == SelectSeq(items, LAMBDA it : it.medium = m)
            IN  [k \in 1..Len(sel) |-> sel[k].tmdb_id]
    IN  [movies |-> idsOf("movie"), tvShows |-> idsOf("tv")]

\* writePMMYAML: the path of the collection file of a category; mediaType
\* is Movies or Series, lower case in the file name.
PMMYAMLPath(mediaType, label) ==
    <<"recommended",
      CASE mediaType = "Movies" -> "movies"
        [] mediaType = "Series" -> "series"
        [] OTHER -> "",
      sanitizeFilename(label), "yml">>

\* The paths of the files the publisher writes.
OutputPaths ==
    ResolvedJSONPaths
    \cup { PMMYAMLPath(m, l) : m \in {"Movies", "Series"}, l \in Labels }

\* Publish when no write fails: the resolved JSON, then the collection file
\* of each list that is not empty (the file of an empty list is left as it
\* is).
Publish(fs, label, items) ==
    LET lists == generatePMMYAMLs(items)
        f1 == [fs EXCEPT ![ResolvedJSONPath(label)] = ResolvedJSON(items)]
        f2 == IF Len(lists.movies) > 0
              THEN [f1 EXCEPT ![PMMYAMLPath("Movies", label)] =
                                 [exists |-> TRUE, items |-> lists.movies]]
              ELSE f1
    IN  IF Len(lists.tvShows) > 0
        THEN [f2 EXCEPT ![PMMYAMLPath("Series", label)] =
                           [exists |-> TRUE, items |-> lists.tvShows]]
        ELSE f2

\* GET /v1/recs/{label}/latest when no read fails: not_found when the
\* latest category run of the label is missing or has no resolved path,
\* else the content of the file at that path.
handleLatestRecs(rows, fs, label) ==
    LET catRun == GetLatestCategoryRun(rows, label)
    IN  IF catRun = NoCategoryRun \/ catRun.resolved_json_path = Null
        THEN [code |-> 404, body |-> << >>]
        ELSE IF ~fs[catRun.resolved_json_path].exists
             THEN [code |-> 500, body |-> << >>]
             ELSE [code |-> 200,
                   body |-> fs[catRun.resolved_json_path].items]

\* UpdatePlexInventory(items) as a whole: the table becomes the rows of the
\* items, or is left as it was when a statement fails (a row listed twice
\* breaks the unique index).
UpdatePlexInventory(inv, items) ==
    IF \E m, n \in 1..Len(items) : m # n /\ items[m] = items[n]
    THEN inv
    ELSE { InventoryRow(items[n]) : n \in 1..Len(items) }

\* What the library provider holds at a batch: the items of its movie
\* sections and of its show sections, in the order of the sections (a title
\* that is in two sections is listed twice).
BatchInventories ==
    [movies : SeqsUpTo({ k \in InventoryKeys : k.media_type = "movie" },
                       MaxItems),
     shows : SeqsUpTo({ k \in InventoryKeys : k.media_type = "tv" }, MaxInv)]

\* GetInventory: the movies, then the shows; a section type whose fetch
\* fails is left out, and no error is returned.
GetInventory(lib, moviesOK, showsOK) ==
    (IF moviesOK THEN lib.movies ELSE << >>)
    \o (IF showsOK THEN lib.shows ELSE << >>)

\* The candidate lists the generative source answers a batch with: a title
\* the catalog knows and one it does not know.
BatchCandidateLists ==
    SeqsUpTo({ c \in Candidates : c.title \in {"Heat", "Zzz"}
                                  /\ c.medium # "book" }, MaxCands)

\* Everything the orchestrator itself leaves alone outside Resolve.
resolverIdle ==
    <<clock, zone, history, cache, pc, recs, categoryLabel, idx,
      alreadyRecommended, resolved, result, runs, runStart, histAtStart, ev,
      runLog, prevRecs, prevRun, lastEmit, tx, seen, req, got>>

\* main: orch.Run() is called, in oneshot mode or by the cron job.
MainRun ==
    /\ callers[0] = "idle"
    /\ callers' = [callers EXCEPT ![0] = "lock"]
    /\ UNCHANGED <<mu, run, jobRuns, categoryRuns, published, responded,
                   attempted, files, plexInventory, faults, resolverIdle>>

\* handleTriggerRun: the goroutine that calls triggerFunc is started and the
\* response "triggered" is sent.
handleTriggerRun(c) ==
    /\ callers[c] = "idle"
    /\ callers' = [callers EXCEPT ![c] = "lock"]
    /\ responded' = responded \cup {c}
    /\ UNCHANGED <<mu, run, jobRuns, categoryRuns, published, attempted, files,
                   plexInventory, faults, resolverIdle>>

\* o.mu.Lock() of caller c returns.
Lock(c) ==
    /\ callers[c] = "lock"
    /\ MutexFree(mu)
    /\ mu' = c
    /\ callers' = [callers EXCEPT ![c] = "running"]
    /\ run' = [NoBatch EXCEPT !.pc = "start", !.by = c]
    /\ attempted' = << >>
    /\ UNCHANGED <<jobRuns, categoryRuns, published, responded, files,
                   plexInventory, faults, resolverIdle>>

\* Mutant: o.mu.Unlock() is not deferred, and runs only at the end of Run.
UnlockAtEndOnly(err) ==
    /\ mu' = IF err THEN mu ELSE Unlocked
    /\ callers' = [callers EXCEPT ![run.by] = "returned"]
    /\ run' = [run EXCEPT !.pc = "returned", !.err = err]

\* Run returns (err: with an error): the deferred o.mu.Unlock() runs.
Unlock(err) ==
    /\ mu' = Unlocked
    /\ callers' = [callers EXCEPT ![run.by] = "returned"]
    /\ run' = [run EXCEPT !.pc = "returned", !.err = err]

\* UPDATE job_run SET finished_at = ?, status = ?, error_msg = ? WHERE
\* id = ? (ok: the statement succeeds).
UpdateJobRun(rows, id, status, ok) ==
    IF ok THEN [rows EXCEPT ![id].status = status] ELSE rows

\* CreateJobRun: the job run is inserted with status running, or Run returns
\* the error of the insert.  The field clientErr is not a column: it
\* remembers that tmdb.NewClient failed in the batch of the job.
CreateJobRun ==
    /\ run.pc = "start"
    /\ \/ /\ jobRuns' = Append(jobRuns, [status |-> "running",
                                         clientErr |-> FALSE])
          /\ run' = [run EXCEPT !.pc = "clients",
                                !.jobID = Len(jobRuns) + 1]
          /\ UNCHANGED <<mu, callers, faults>>
       \/ /\ faults < MaxFaults
          /\ faults' = faults + 1
          /\ Unlock(TRUE)
          /\ UNCHANGED jobRuns
    /\ UNCHANGED <<categoryRuns, published, responded, attempted, files,
                   plexInventory, resolverIdle>>

\* The clients are created: when tmdb.NewClient fails the job is marked
\* failed (the error of that update is dropped) and Run returns an error.
NewClients ==
    /\ run.pc = "clients"
    /\ \/ /\ run' = [run EXCEPT !.pc = "inventory"]
          /\ UNCHANGED <<mu, callers, faults, jobRuns>>
       \/ /\ \E ok \in BOOLEAN :
                /\ faults + 1 + Count(~ok) <= MaxFaults
                /\ faults' = faults + 1 + Count(~ok)
                /\ jobRuns' = [UpdateJobRun(jobRuns, run.jobID, "failed", ok)
                                  EXCEPT ![run.jobID].clientErr = TRUE]
          /\ Unlock(TRUE)
    /\ UNCHANGED <<categoryRuns, published, responded, attempted, files,
                   plexInventory, resolverIdle>>

\* The inventory is fetched (GetInventory returns no error) and stored; a
\* failure of UpdatePlexInventory is only logged.  An unreachable provider
\* and a failing store statement each count as one failure.
FetchInventory ==
    /\ run.pc = "inventory"
    /\ \E lib \in BatchInventories, moviesOK, showsOK, storeOK \in BOOLEAN :
          LET items == GetInventory(lib, moviesOK, showsOK)
              failures == Count(~moviesOK \/ ~showsOK) + Count(~storeOK)
          IN  /\ faults + failures <= MaxFaults
              /\ faults' = faults + failures
              /\ plexInventory' =
                    IF storeOK
                    THEN UpdatePlexInventory(plexInventory, items)
                    ELSE plexInventory
              /\ run' = [run EXCEPT
                           !.pc = "category", !.cat = 1,
                           !.fetch = [valid |-> TRUE, moviesOK |-> moviesOK,
                                      showsOK |-> showsOK, items |-> items,
                                      storeOK |-> storeOK,
                                      old |-> plexInventory]]
    /\ UNCHANGED <<mu, callers, jobRuns, categoryRuns, published, responded,
                   attempted, files, resolverIdle>>

\* Mutant: a failed category ends the loop.
NextCategoryAbort(failed, cat, n) == IF failed THEN n + 1 ELSE cat + 1

\* The range loop over the categories goes on with the next one, whether
\* the body ran to its end or left by continue.
NextCategory(failed, cat, n) == cat + 1

\* Top of the loop body: CreateCategoryRun; on an error, continue.
BeginCategory ==
    /\ run.pc = "category"
    /\ run.cat <= Len(Categories)
    /\ attempted' = Append(attempted, Categories[run.cat])
    /\ \/ /\ categoryRuns' =
                Append(categoryRuns,
                       [job_id |-> run.jobID, label |-> Categories[run.cat],
                        status |-> "running", resolved_json_path |-> Null,
                        updates |-> 0])
          /\ run' = [run EXCEPT !.pc = "llm",
                                !.catRunID = Len(categoryRuns) + 1,
                                !.fetch = NoFetch]
          /\ UNCHANGED faults
       \/ /\ faults < MaxFaults
          /\ faults' = faults + 1
          /\ run' = [run EXCEPT
                       !.cat = NextCategory(TRUE, run.cat, Len(Categories)),
                       !.fetch = NoFetch]
          /\ UNCHANGED categoryRuns
    /\ UNCHANGED <<mu, callers, jobRuns, published, responded, files,
                   plexInventory, resolverIdle>>

\* processCategory returned an error: the category run is marked failed (the
\* error of that update is dropped) and the loop continues.
FailCategory ==
    /\ \E ok \in BOOLEAN :
          /\ faults + Count(~ok) <= MaxFaults
          /\ faults' = faults + Count(~ok)
          /\ categoryRuns' =
                UpdateCategoryRun(categoryRuns, run.catRunID, "failed", Null,
                                  ok)
    /\ run' = [run EXCEPT !.pc = "category",
                          !.cat = NextCategory(TRUE, run.cat, Len(Categories)),
                          !.failed = @ \cup {run.cat}]

\* processCategory up to the call of Resolve: GenerateRecommendations fails,
\* or answers with a candidate list on which Resolve is called.
Generate ==
    /\ run.pc = "llm"
    /\ \/ /\ FailCategory
          /\ UNCHANGED <<mu, callers, jobRuns, published, responded,
                         attempted, files, plexInventory, resolverIdle>>
       \/ /\ \E list \in BatchCandidateLists :
                StartResolve(list, Categories[run.cat])
          /\ run' = [run EXCEPT !.pc = "resolve"]
          /\ UNCHANGED <<mu, callers, jobRuns, categoryRuns, published,
                         responded, attempted, files, searchVars>>

\* The locals of the call of Resolve are gone.
ClearResolve ==
    /\ pc' = "idle"
    /\ recs' = << >>
    /\ categoryLabel' = ""
    /\ idx' = 0
    /\ alreadyRecommended' = {}
    /\ resolved' = << >>
    /\ result' = "none"
    /\ histAtStart' = {}
    /\ runStart' = 0
    /\ runLog' = NoRun
    /\ ev' = NoEvent

\* processCategory after Resolve: an error of Resolve or of Publish fails
\* the category; otherwise the outputs are published and the category run is
\* marked completed (an error of that update is only logged).
FinishCategory ==
    /\ run.pc = "resolve"
    /\ pc = "done"
    /\ ClearResolve
    /\ \/ /\ result = "error"
          /\ FailCategory
          /\ UNCHANGED <<published, files>>
       \/ \* Publish fails, before or after writeResolvedJSON
          /\ result = "output"
          /\ faults < MaxFaults
          /\ faults' = faults + 1
          /\ \/ UNCHANGED files
             \/ files' = [files EXCEPT ![ResolvedJSONPath(categoryLabel)] =
                                         ResolvedJSON(resolved)]
          /\ categoryRuns' =
                UpdateCategoryRun(categoryRuns, run.catRunID, "failed", Null,
                                  TRUE)
          /\ run' = [run EXCEPT
                       !.pc = "category",
                       !.cat = NextCategory(TRUE, run.cat, Len(Categories)),
                       !.failed = @ \cup {run.cat}]
          /\ UNCHANGED published
       \/ /\ result = "output"
          /\ published' = published \cup
                { <<categoryLabel, resolved[k].tmdb_id, resolved[k].medium>>
                  : k \in 1..Len(resolved) }
          /\ files' = Publish(files, categoryLabel, resolved)
          /\ \E ok \in BOOLEAN :
                /\ faults + Count(~ok) <= MaxFaults
                /\ faults' = faults + Count(~ok)
                /\ categoryRuns' =
                      UpdateCategoryRun(categoryRuns, run.catRunID,
                                        "completed",
                                        ResolvedJSONPath(categoryLabel), ok)
          /\ run' = [run EXCEPT
                       !.pc = "category",
                       !.cat = NextCategory(FALSE, run.cat, Len(Categories))]
    /\ UNCHANGED <<mu, callers, jobRuns, responded, attempted, clock, zone,
                   history, cache, plexInventory, runs, prevRecs, prevRun,
                   lastEmit, tx, seen, searchVars>>

\* After the loop: the job is marked completed (an error of that update is
\* only logged) and Run returns nil.
FinishBatch ==
    /\ run.pc = "category"
    /\ run.cat > Len(Categories)
    /\ \E ok \in BOOLEAN :
          /\ faults + Count(~ok) <= MaxFaults
          /\ faults' = faults + Count(~ok)
          /\ jobRuns' = UpdateJobRun(jobRuns, run.jobID, "completed", ok)
    /\ Unlock(FALSE)
    /\ UNCHANGED <<categoryRuns, published, responded, attempted, files,
                   plexInventory, resolverIdle>>

Init ==
    /\ clock = 0
    /\ zone \in Zones
    /\ history = {}
    /\ cache = << >>
    /\ plexInventory \in InventorySnapshots
    /\ pc = "idle"
    /\ recs = << >>
    /\ categoryLabel = ""
    /\ idx = 0
    /\ alreadyRecommended = {}
    /\ resolved = << >>
    /\ result = "none"
    /\ runs = 0
    /\ runStart = 0
    /\ histAtStart = {}
    /\ ev = NoEvent
    /\ runLog = NoRun
    /\ prevRecs = << >>
    /\ prevRun = NoRun
    /\ lastEmit = [k \in Labels \X Ids |-> NoEmit]
    /\ faults = 0
    /\ tx = NoTx
    /\ seen = NotSeen
    /\ req = NoRequest
    /\ got = NotCalled
    /\ mu = Unlocked
    /\ callers = [c \in Callers |-> "idle"]
    /\ run = NoBatch
    /\ jobRuns = << >>
    /\ categoryRuns = << >>
    /\ published = {}
    /\ responded = {}
    /\ attempted = << >>
    /\ files = [f \in OutputPaths |-> NoFile]

\* The resolver, run after run, on any candidate lists.
Next ==
    \/ \E list \in CandidateLists, label \in Labels :
          StartResolve(list, label) /\ UNCHANGED <<searchVars, batchVars>>
    \/ ResolveStep /\ UNCHANGED <<searchVars, batchVars>>
    \/ FinishResolve /\ UNCHANGED <<searchVars, batchVars>>
    \/ Return /\ UNCHANGED <<searchVars, batchVars>>
    \/ Tick /\ UNCHANGED <<searchVars, batchVars>>

Spec == Init /\ [][Next]_vars

\* A run, and then the same candidate list and category again at once.
NextRerun ==
    \/ \E list \in CandidateLists, label \in Labels :
          StartResolve(list, label) /\ UNCHANGED <<searchVars, batchVars>>
    \/ ResolveStep /\ UNCHANGED <<searchVars, batchVars>>
    \/ FinishResolve /\ UNCHANGED <<searchVars, batchVars>>
    \/ Rerun /\ UNCHANGED <<searchVars, batchVars>>

\* The store as a run of Resolve on the one candidate Heat (movie) for
\* label, at instant 0 and without any failure, leaves it.
AfterHeat(label) ==
    [history |-> RecordRecommendation({}, label, 1, "movie", 0),
     cache |-> CacheTitleResolution(
                   << >>,
                   ToCacheEntry(FirstMatch(SearchResults("Heat", "movie"),
                                           1995, "movie"), "Heat"), 0),
     lastEmit |-> [k \in Labels \X Ids |->
                     IF k = <<label, 1>> THEN 0 ELSE NoEmit]]

\* The rerun starts from an empty store or from the store an earlier run
\* has left.
InitRerun ==
    /\ clock = 0
    /\ zone \in Zones
    /\ \/ history = {} /\ cache = << >>
          /\ lastEmit = [k \in Labels \X Ids |-> NoEmit]
       \/ \E label \in Labels :
             /\ history = AfterHeat(label).history
             /\ cache = AfterHeat(label).cache
             /\ lastEmit = AfterHeat(label).lastEmit
    /\ plexInventory \in InventorySnapshots
    /\ pc = "idle"
    /\ recs = << >>
    /\ categoryLabel = ""
    /\ idx = 0
    /\ alreadyRecommended = {}
    /\ resolved = << >>
    /\ result = "none"
    /\ runs = 0
    /\ runStart = 0
    /\ histAtStart = {}
    /\ ev = NoEvent
    /\ runLog = NoRun
    /\ prevRecs = << >>
    /\ prevRun = NoRun
    /\ faults = 0
    /\ tx = NoTx
    /\ seen = NotSeen
    /\ req = NoRequest
    /\ got = NotCalled
    /\ mu = Unlocked
    /\ callers = [c \in Callers |-> "idle"]
    /\ run = NoBatch
    /\ jobRuns = << >>
    /\ categoryRuns = << >>
    /\ published = {}
    /\ responded = {}
    /\ attempted = << >>
    /\ files = [f \in OutputPaths |-> NoFile]

SpecRerun == InitRerun /\ [][NextRerun]_vars

\* Everything but the inventory table, its transaction and its reader.
resolverVars ==
    <<clock, zone, history, cache, pc, recs, categoryLabel, idx,
      alreadyRecommended, resolved, result, runs, runStart, histAtStart, ev,
      runLog, prevRecs, prevRun, lastEmit, faults>>

\* The inventory table under UpdatePlexInventory, with a concurrent reader.
NextInv ==
    \/ \E items \in InventoryLists :
          BeginUpdate(items) /\ UNCHANGED <<resolverVars, searchVars, batchVars>>
    \/ TxDelete /\ UNCHANGED <<seen, resolverVars, searchVars, batchVars>>
    \/ TxInsert /\ UNCHANGED <<seen, resolverVars, searchVars, batchVars>>
    \/ TxCommit /\ UNCHANGED <<seen, resolverVars, searchVars, batchVars>>
    \/ ReadInventory /\ UNCHANGED <<resolverVars, searchVars, batchVars>>

InitInv == Init /\ zone = 0

SpecInv == InitInv /\ [][NextInv]_vars

\* The calls of searchMovie and searchTV, one after the other.
NextSearch ==
    \/ CallSearch /\ UNCHANGED <<resolverVars, plexInventory, tx, seen, batchVars>>
    \/ NextRequest /\ UNCHANGED <<resolverVars, plexInventory, tx, seen, batchVars>>

InitSearch ==
    /\ InitInv
    /\ plexInventory = {}

SpecSearch == InitSearch /\ [][NextSearch]_vars

\* What the calls of SearchAndResolve leave alone.
cacheFrame ==
    <<zone, history, pc, recs, categoryLabel, idx, alreadyRecommended,
      resolved, result, runs, runStart, histAtStart, ev, runLog, prevRecs,
      prevRun, lastEmit, plexInventory, tx, seen, batchVars>>

\* The calls of SearchAndResolve, one after the other, as time passes.
NextCache ==
    \/ \E r \in CacheRequests : SearchAndResolveCall(r) /\ UNCHANGED cacheFrame
    \/ Later /\ UNCHANGED cacheFrame

InitCache == InitSearch

SpecCache == InitCache /\ [][NextCache]_vars

\* The process: the main goroutine and the POST /v1/run requests call Run.
NextBatch ==
    \/ MainRun
    \/ \E c \in 1..MaxRequests : handleTriggerRun(c)
    \/ \E c \in Callers : Lock(c)
    \/ CreateJobRun
    \/ NewClients
    \/ FetchInventory
    \/ BeginCategory
    \/ Generate
    \/ ResolveStep /\ UNCHANGED <<searchVars, batchVars>>
    \/ FinishResolve /\ UNCHANGED <<searchVars, batchVars>>
    \/ FinishCategory
    \/ FinishBatch

InitBatch ==
    /\ InitInv
    /\ plexInventory = {}

SpecBatch == InitBatch /\ [][NextBatch]_vars

\* processCategory after a Resolve that returned an output, without the
\* category run: Publish writes its files, or fails after the resolved
\* JSON.
PublishOutput ==
    /\ pc = "done"
    /\ result = "output"
    /\ \/ /\ files' = Publish(files, categoryLabel, resolved)
          /\ UNCHANGED faults
       \/ /\ faults < MaxFaults
          /\ faults' = faults + 1
          /\ files' = [files EXCEPT ![ResolvedJSONPath(categoryLabel)] =
                                      ResolvedJSON(resolved)]
    /\ UNCHANGED <<clock, zone, history, cache, pc, recs, categoryLabel, idx,
                   alreadyRecommended, resolved, result, runs, runStart,
                   histAtStart, ev, runLog, prevRecs, prevRun, lastEmit,
                   plexInventory, tx, seen, searchVars, mu, callers, run,
                   jobRuns, categoryRuns, published, responded, attempted>>

\* The first category is resolved on any candidate list and its output is
\* published.
NextPublish ==
    \/ \E list \in CandidateLists :
          StartResolve(list, Categories[1])
          /\ UNCHANGED <<searchVars, batchVars>>
    \/ ResolveStep /\ UNCHANGED <<searchVars, batchVars>>
    \/ FinishResolve /\ UNCHANGED <<searchVars, batchVars>>
    \/ PublishOutput
    \/ Return /\ UNCHANGED <<searchVars, batchVars>>

InitPublish == InitBatch

SpecPublish == InitPublish /\ [][NextPublish]_vars

\* A step of the goroutine that is inside Run, in batches whose provider
\* calls do not fail, on an empty library and on candidate lists of at most
\* one title.
RunStep ==
    \/ CreateJobRun
    \/ NewClients
    \/ /\ FetchInventory
       /\ run'.fetch.items = << >>
       /\ faults' = faults
    \/ BeginCategory
    \/ /\ Generate
       /\ Len(recs') <= 1
       /\ \A n \in 1..Len(recs') : recs'[n].title = "Heat"
                                   /\ recs'[n].medium = "movie"
    \/ ResolveStep /\ UNCHANGED <<searchVars, batchVars>>
    \/ FinishResolve /\ UNCHANGED <<searchVars, batchVars>>
    \/ FinishCategory
    \/ FinishBatch

\* The calls of Run and the batches they execute.
NextGuard ==
    \/ MainRun
    \/ \E c \in 1..MaxRequests : handleTriggerRun(c)
    \/ \E c \in Callers : Lock(c)
    \/ RunStep

\* The goroutine inside Run is scheduled and its external calls return; a
\* goroutine blocked in o.mu.Lock() is not passed over for ever (sync.Mutex
\* hands the lock to a waiter that has waited too long).  Nothing is
\* assumed about the arrival of calls of Run.
SpecGuard ==
    /\ InitBatch
    /\ [][NextGuard]_vars
    /\ WF_vars(RunStep)
    /\ \A c \in Callers : SF_vars(Lock(c))

----------------------------------------------------------------------------
(* Properties *)

Items == 1..Len(resolved)

\* The candidates the loop has been through.
Processed == 1..(idx - 1)

\* The candidates an item of the output came from.
Survivors == { resolved[k].src : k \in Items }

\* Two positions of the candidate list that list the same title.
SameTitle(i, j) ==
    /\ recs[i].title = recs[j].title
    /\ recs[i].year = recs[j].year
    /\ NormalizeMedium(recs[i].medium) = NormalizeMedium(recs[j].medium)

\* The ids of the rows of h for label whose last_seen_at is an instant less
\* than 60 days before instant t.
SeenWithin60Days(h, label, t) ==
    { r.tmdb_id : r \in { x \in h : /\ x.label = label
                                    /\ t - Instant(x.last_seen_at)
                                           < WindowTicks } }

\* C1: no two items of the output of a run share (canonical_id, medium);
\* a title listed twice is emitted at most once, and once its first
\* occurrence is emitted there is exactly one item for it, the later
\* occurrence being skipped as already recommended (or failing to resolve).
C1_NoDuplicateItems ==
    /\ \A k, l \in Items :
          k # l => <<resolved[k].tmdb_id, resolved[k].medium>>
                     # <<resolved[l].tmdb_id, resolved[l].medium>>
    /\ \A i, j \in Processed :
          (i < j /\ SameTitle(i, j)) =>
             /\ ~(i \in Survivors /\ j \in Survivors)
             /\ i \in Survivors =>
                   /\ Cardinality({ k \in Items :
                         resolved[k].title = SearchResults(recs[i].title,
                             NormalizeMedium(recs[i].medium))[1].title }) = 1
                   /\ (ev.op = "step" /\ ev.idx = j) =>
                         ev.outcome \in {"duplicate", "unresolved"}

\* C1 witness: the second occurrence of a title whose first occurrence was
\* emitted has just been skipped as a duplicate.
C1_Witness ==
    /\ ev.op = "step" /\ ev.idx = 2 /\ ev.outcome = "duplicate"
    /\ SameTitle(1, 2)
    /\ Survivors = {1}

\* C2: every item of the output has an id that is not in the inventory and
\* was not seen for the category in the 60 days before the start of the run
\* (stated for the behaviours in which no store or provider call failed).
C2_ItemsNotExcluded ==
    faults = 0 =>
       \A k \in Items :
          /\ [tmdb_id |-> resolved[k].tmdb_id,
              media_type |-> resolved[k].medium] \notin plexInventory
          /\ resolved[k].tmdb_id
                \notin SeenWithin60Days(histAtStart, categoryLabel, runStart)

\* C3: an id emitted for a category is not emitted again for that category
\* by a run that starts less than 60 days after the run that last emitted it
\* (stated for the behaviours in which no store or provider call failed).
C3_NoRepeatWithin60Days ==
    [][ (/\ faults' = 0
         /\ idx' = idx + 1
         /\ ev'.outcome = "emitted"
         /\ lastEmit[<<categoryLabel, ev'.tmdb_id>>] # NoEmit)
        => runStart - lastEmit[<<categoryLabel, ev'.tmdb_id>>] >= WindowTicks
      ]_vars

\* The run in progress is the second run on the same list and category, at
\* the same instant, and the first run returned an output.
IsRerunAfterOutput == prevRun.valid /\ prevRun.result = "output"

\* The store of the main specification is the one AfterHeat describes.
StoreIsAfterHeat ==
    \E label \in Labels :
       /\ pc = "idle" /\ clock = 0 /\ faults = 0
       /\ history = AfterHeat(label).history
       /\ cache = AfterHeat(label).cache
       /\ lastEmit = AfterHeat(label).lastEmit

ResolvedBefore == (1..Len(prevRecs)) \ prevRun.resFailed
ResolvedNow == Processed \ runLog.resFailed

WrittenBefore(i) ==
    { n \in 1..(Len(cache) - Count(ev.wrote)) :
         /\ cache[n].query = recs[i].title
         /\ cache[n].year = recs[i].year
         /\ cache[n].media_type = NormalizeMedium(recs[i].medium) }

\* C5: once a call of SearchAndResolve for a key went to the provider and
\* wrote a cache entry, a later call for the same key makes no external
\* search call and returns the id of the first call (stated for the
\* behaviours in which no store or provider call failed).
C5_SecondCallFromCache ==
    (faults = 0 /\ ev.op = "step" /\ WrittenBefore(ev.idx) # {})
    => /\ ~ev.searched
       /\ \A n \in WrittenBefore(ev.idx) : ev.tmdb_id = cache[n].tmdb_id

\* C6 (state): at most one history row per (label, id, medium), and
\* first_seen_at is never later than last_seen_at.
HistoryUnique ==
    \A r1, r2 \in history : HistoryKey(r1) = HistoryKey(r2) => r1 = r2

\* C6 (step): no row is deleted and no first_seen_at changes; a successful
\* RecordRecommendation leaves the row of its key with last_seen_at equal to
\* the time of the call, and with first_seen_at equal to it when the key is
\* new; every other row is left as it was.
HistoryUpsert ==
    /\ \A r \in history :
          \E r2 \in history' : /\ HistoryKey(r2) = HistoryKey(r)
                               /\ r2.first_seen_at = r.first_seen_at
    /\ IF idx' = idx + 1 /\ ev'.outcome = "emitted" /\ ev'.recorded
       THEN LET key == <<categoryLabel, ev'.tmdb_id,
                         NormalizeMedium(recs[idx].medium)>>
            IN  /\ \E r2 \in history' :
                      /\ HistoryKey(r2) = key
                      /\ r2.last_seen_at = NowUTC(clock)
                      /\ (\A r \in history : HistoryKey(r) # key)
                            => r2.first_seen_at = NowUTC(clock)
                /\ \A r2 \in history' : HistoryKey(r2) # key => r2 \in history
                /\ \A r \in history : HistoryKey(r) # key => r \in history'
       ELSE history' = history

\* C6: the history holds at most one row per key; first_seen_at is the time
\* of the first record of the key, last_seen_at the time of the latest; no
\* row is ever deleted.
C6_HistoryUpsert == []HistoryUnique /\ [][HistoryUpsert]_vars

\* C6 witness: a key has been recorded twice, at different times.
C6_Witness ==
    \E r \in history : Instant(r.last_seen_at) > Instant(r.first_seen_at)

\* C7: Resolve returns the error exactly when no candidate survived and an
\* output exactly when at least one did; an output is never empty.
C7_NoEmptySuccess ==
    /\ pc = "done" => /\ result \in {"error", "output"}
                      /\ result = "error" <=> Len(resolved) = 0
                      /\ result = "output" <=> Len(resolved) > 0
    /\ pc # "done" => result = "none"

\* C7 witness: a run on an empty candidate list has returned the error.
C7_Witness == pc = "done" /\ Len(recs) = 0 /\ result = "error"

\* C8 (state): the loop goes through every candidate before Resolve returns,
\* and a run whose only candidate failed to resolve returns the error.
AllProcessed ==
    pc = "done" =>
       /\ idx = Len(recs) + 1
       /\ (Len(recs) = 1 /\ runLog.resFailed = {1}) => result = "error"

\* C8 (step): a candidate that fails to resolve changes neither the history
\* nor the output nor the map, and the loop goes on with the next one.
FailureIsLocal ==
    (pc = "loop" /\ idx' # idx /\ ev'.outcome = "unresolved")
    => /\ history' = history
       /\ resolved' = resolved
       /\ alreadyRecommended' = alreadyRecommended
       /\ idx' = idx + 1
       /\ pc' = "loop"

\* C8: a candidate that fails to resolve only drops that candidate.
C8_FailureIsLocal == []AllProcessed /\ [][FailureIsLocal]_vars

\* C8 witness: the first candidate failed to resolve and the second one was
\* emitted.
C8_Witness ==
    /\ pc = "done" /\ Len(recs) = 2
    /\ runLog.resFailed = {1}
    /\ Survivors = {2}

\* C9: the items of the output are in the order of the candidates they came
\* from, each with the normalized medium and the match of its candidate.
C9_OutputInInputOrder ==
    /\ \A k, l \in Items : k < l => resolved[k].src < resolved[l].src
    /\ \A k \in Items :
          LET rec == recs[resolved[k].src]
              mediaType == NormalizeMedium(rec.medium)
          IN  /\ resolved[k].src \in Processed
              /\ resolved[k].medium = mediaType
              /\ resolved[k].tmdb_id
                    = SearchResults(rec.title, mediaType)[1].id

\* C9 witness: two candidates survived.
C9_Witness ==
    /\ Len(resolved) = 2
    /\ resolved[1].src = 1 /\ resolved[2].src = 2
    /\ resolved[1].tmdb_id # resolved[2].tmdb_id

\* The set of rows a list of items stands for.
RowsOf(items) == { InventoryRow(items[n]) : n \in 1..Len(items) }

\* C10: UpdatePlexInventory is all-or-nothing: once it has returned nil the
\* table is exactly the new snapshot, once it has returned an error the table
\* is exactly the previous snapshot, and while it runs the table a reader
\* finds is the previous snapshot; a reader never finds anything but the
\* previous or the new snapshot.
C10_InventoryReplaceAtomic ==
    /\ tx.pc = "ok" => plexInventory = RowsOf(tx.items)
    /\ tx.pc = "err" => plexInventory = tx.old
    /\ tx.pc \in {"begun", "inserting"} => plexInventory = tx.old
    /\ (seen.valid /\ tx.pc # "none") =>
          /\ seen.at # "ok" => seen.rows = tx.old
          /\ seen.at = "ok" => seen.rows = RowsOf(tx.items)

\* C10 witness: a reader has read the table after the DELETE and the first
\* INSERT of a transaction that replaces a non-empty snapshot by two rows.
C10_Witness ==
    /\ tx.pc = "inserting" /\ tx.next = 2 /\ Len(tx.items) = 2
    /\ tx.old # {} /\ tx.old # RowsOf(tx.items)
    /\ seen.valid /\ seen.at = "inserting"
    /\ seen.rows = tx.old

----------------------------------------------------------------------------
(* Properties of the resolver loop, continued *)

\* The step just taken is an iteration of the range loop.
IsLoopStep == pc = "loop" /\ idx' = idx + 1 /\ ev'.op = "step"

\* The media type of the candidate of the iteration.
StepMediaType == NormalizeMedium(recs[idx].medium)

\* C15 (step): when RecordRecommendation fails for a surviving candidate its
\* item is appended all the same, the id is marked and the loop goes on; no
\* step of a run takes an item out of the output.
WriteErrorKeepsItem ==
    /\ (IsLoopStep /\ ev'.outcome = "emitted" /\ ~ev'.recorded)
       => /\ Len(resolved') = Len(resolved) + 1
          /\ resolved'[Len(resolved')].tmdb_id = ev'.tmdb_id
          /\ resolved'[Len(resolved')].src = idx
          /\ ev'.tmdb_id \in alreadyRecommended'
          /\ history' = history
          /\ pc' = "loop"
    /\ pc = "loop"
       => /\ Len(resolved') >= Len(resolved)
          /\ \A k \in 1..Len(resolved) : resolved'[k] = resolved[k]

\* C15 (state): a run in which a history write failed goes through every
\* candidate and returns an output.
WriteErrorNotFatal ==
    (pc = "done" /\ runLog.writeFault)
    => /\ idx = Len(recs) + 1
       /\ result = "output"
       /\ Len(resolved) > 0

\* C15: a failed RecordRecommendation neither drops the item from the output
\* of the run, nor stops the loop, nor makes the run fail.
C15_WriteErrorKeepsItem ==
    []WriteErrorNotFatal /\ [][WriteErrorKeepsItem]_vars

\* C15 witness: the history write of the first of two candidates failed, both
\* are in the output and the run returned it.
C15_Witness ==
    /\ pc = "done" /\ result = "output"
    /\ runLog.writeFault
    /\ Len(resolved) = 2
    /\ \A r \in history : r.tmdb_id # resolved[1].tmdb_id

RowWritten(h) ==
    \E r \in h : /\ HistoryKey(r) = <<categoryLabel, ev'.tmdb_id, StepMediaType>>
                 /\ r.last_seen_at = NowUTC(clock)

\* The candidate of the iteration resolved to an id that is neither in the map
\* of the run nor in the inventory.
NotExcluded ==
    /\ IsLoopStep
    /\ ev'.outcome # "unresolved"
    /\ ev'.tmdb_id \notin alreadyRecommended
    /\ [tmdb_id |-> ev'.tmdb_id, media_type |-> StepMediaType]
          \notin plexInventory

\* The item of the candidate of the iteration is appended to the output.
ItemAppended ==
    /\ ev'.outcome = "emitted"
    /\ Len(resolved') = Len(resolved) + 1
    /\ resolved'[Len(resolved')].tmdb_id = ev'.tmdb_id
    /\ resolved'[Len(resolved')].src = idx

\* Every candidate the loop has been through has at most one item, and the
\* candidates that were emitted have exactly one.
OneItemPerSurvivor ==
    \A i \in Processed : Cardinality({ k \in Items : resolved[k].src = i }) <= 1

\* C19 as stated: a candidate that resolved and is not excluded is appended
\* to the output, once, and its history row is upserted.
C19_SurvivorEmittedAndRecorded ==
    []OneItemPerSurvivor
    /\ [][ NotExcluded => (ItemAppended /\ RowWritten(history')) ]_vars

\* C19 amended: a candidate that resolved and is not excluded is appended to
\* the output, once; its history row is upserted unless RecordRecommendation
\* fails, in which case the history is left as it was.
C19_SurvivorEmittedAmended ==
    []OneItemPerSurvivor
    /\ [][ NotExcluded =>
             /\ ItemAppended
             /\ ev'.recorded => RowWritten(history')
             /\ ~ev'.recorded => history' = history ]_vars

\* C19 witness: a candidate was emitted and the row an earlier run had written
\* for it was bumped.
C19_Witness ==
    /\ ev.op = "step" /\ ev.outcome = "emitted" /\ ev.recorded
    /\ resolved[Len(resolved)].tmdb_id = ev.tmdb_id
    /\ \E r \in history : /\ r.label = categoryLabel
                          /\ r.tmdb_id = ev.tmdb_id
                          /\ r.last_seen_at = NowUTC(clock)
                          /\ Instant(r.first_seen_at) < clock

\* The ids of the rows of h for label whose last_seen_at is the instant t
\* minus 60 days or a later one.
SeenSince(h, label, t) ==
    { r.tmdb_id : r \in { x \in h : /\ x.label = label
                                    /\ Instant(x.last_seen_at)
                                           >= t - WindowTicks } }

\* C20: the map a run starts with is the set of the ids with a history row of
\* the category whose last_seen_at is, as an instant, at or after the start
\* of the run minus 60 days (stated for the runs whose history read
\* succeeded).
C20_ExclusionSetExact ==
    (pc = "loop" /\ ev.op = "start" /\ ~runLog.histReadFault)
    => alreadyRecommended = SeenSince(histAtStart, categoryLabel, runStart)

\* C16: when the search call succeeds with at least one result, searchMovie
\* and searchTV succeed with the id and title of the first result whatever
\* the details call and the keywords call do; a failed details call leaves
\* genres, runtime, country and external id empty, a failed keywords call
\* leaves the keywords empty, and neither touches what the other call gives.
C16_AuxiliaryFailuresTolerated ==
    LET results == SearchResults(req.title, req.media_type)
        res == got.res
    IN  (got.valid /\ req.searchOK /\ Len(results) > 0)
        => /\ res.ok
           /\ res.tmdb_id = results[1].id
           /\ [tmdb_id |-> res.tmdb_id, title |-> res.title,
               year |-> res.year, media_type |-> res.media_type]
                 = FirstMatch(results, req.year, req.media_type)
           /\ ~req.detailsOK =>
                 /\ res.genres = << >> /\ res.runtime_min = 0
                 /\ res.country = "" /\ res.imdb_id = ""
           /\ ~req.keywordsOK => res.keywords = << >>
           /\ req.keywordsOK => res.keywords = Keywords(res.tmdb_id)
           /\ req.detailsOK =>
                 res.genres = IF req.media_type = "movie"
                              THEN MovieDetails(res.tmdb_id).genres
                              ELSE TVDetails(res.tmdb_id).genres

\* C16 witness: a movie search succeeded while both the details call and the
\* keywords call failed.
C16_Witness ==
    /\ got.valid /\ got.res.ok
    /\ req.media_type = "movie"
    /\ req.searchOK /\ ~req.detailsOK /\ ~req.keywordsOK
    /\ got.res.tmdb_id = 2

----------------------------------------------------------------------------
(* Properties of the orchestrator *)

\* The callers that are executing the body of Run.
RunningCallers == { c \in Callers : callers[c] = "running" }

\* The call of Run that holds the lock is inside the body.
InBatch == run.pc \notin {"none", "returned"}

\* C11: at most one caller executes the body of Run at any time, and it is
\* the caller that holds o.mu, whatever the order in which the main
\* goroutine and the POST /v1/run requests call Run.
C11_AtMostOneBatch ==
    /\ Cardinality(RunningCallers) <= 1
    /\ \A c \in Callers : callers[c] = "running" <=> mu = c
    /\ InBatch <=> mu # Unlocked
    /\ InBatch => run.by = mu

\* C11 witness: the batch of a POST request is resolving a category while
\* the main goroutine and another request wait for the lock.
C11_Witness ==
    /\ callers[1] = "running"
    /\ callers[0] = "lock" /\ callers[2] = "lock"
    /\ run.pc = "resolve" /\ pc = "loop"

\* C12: the categories a batch attempts are the configured ones, one at a
\* time and in the order of the configuration; a category that failed is
\* followed by the next one, and a batch that ran to its end has attempted
\* every category, whichever of them failed.
C12_FailedCategoryDoesNotStopBatch ==
    /\ Len(attempted) <= Len(Categories)
    /\ \A n \in 1..Len(attempted) : attempted[n] = Categories[n]
    /\ run.pc = "category" => Len(attempted) = run.cat - 1
    /\ run.pc \in {"llm", "resolve"} => Len(attempted) = run.cat
    /\ \A k \in run.failed :
          \/ run.pc = "category" /\ run.cat = k + 1
          \/ Len(attempted) > k
          \/ k = Len(Categories) /\ run.pc = "returned"
    /\ (run.pc = "returned" /\ ~run.err) => attempted = Categories

\* C12 witness: the first category of a batch failed, the second one was
\* completed and the batch has returned.
C12_Witness ==
    /\ run.pc = "returned" /\ ~run.err
    /\ run.failed = {1}
    /\ attempted = Categories
    /\ \E n \in 1..Len(categoryRuns) :
          /\ categoryRuns[n].job_id = run.jobID
          /\ categoryRuns[n].label = Categories[2]
          /\ categoryRuns[n].status = "completed"

\* C13 (state): a category run is running, completed or failed, has changed
\* status at most once, and is running only while its batch is in progress.
CategoryRunSettled ==
    \A n \in 1..Len(categoryRuns) :
       /\ categoryRuns[n].status \in {"running", "completed", "failed"}
       /\ categoryRuns[n].updates <= 1
       /\ categoryRuns[n].status = "running" =>
             /\ categoryRuns[n].updates = 0
             /\ InBatch
             /\ categoryRuns[n].job_id = run.jobID

\* C13 (step): a category run is created running; its status only changes
\* from running, to completed when at least one item was resolved, to failed
\* otherwise.
CategoryRunTransition ==
    /\ \A n \in (Len(categoryRuns) + 1)..Len(categoryRuns') :
          categoryRuns'[n].status = "running"
    /\ \A n \in 1..Len(categoryRuns) :
          categoryRuns'[n].status # categoryRuns[n].status =>
             /\ categoryRuns[n].status = "running"
             /\ categoryRuns'[n].status \in {"completed", "failed"}
             /\ categoryRuns'[n].status = "completed" => Len(resolved) >= 1
             /\ Len(resolved) = 0 => categoryRuns'[n].status = "failed"

\* C13: every category run is created running and makes exactly one
\* transition, to completed or to failed, before its batch ends.
C13_CategoryRunLifecycle ==
    []CategoryRunSettled /\ [][CategoryRunTransition]_vars

\* C14: at every point, every history row belongs to an item of an output of
\* its category that Publish has written, so that a category run that ends
\* failed has added no row.
C14_HistoryOnlyForPublished ==
    \A r \in history : HistoryKey(r) \in published

\* C17: a POST /v1/run request is answered only after the call of Run it
\* started has returned.
C17_TriggerRunBlocks ==
    \A c \in responded : callers[c] = "returned"

----------------------------------------------------------------------------
(* Properties of the exclusion filter and of the cache *)

\* The ids of the items of the output so far.
EmittedIds == { resolved[k].tmdb_id : k \in Items }

\* C21 (state): the map of a run holds only ids that have a history row of
\* the category of the run, or that the run itself has emitted.
HistoryScopedByCategory ==
    pc \in {"loop", "done"} =>
       alreadyRecommended \subseteq
          { r.tmdb_id : r \in { x \in histAtStart : x.label = categoryLabel } }
          \cup EmittedIds

\* C21 (step): a candidate whose (id, medium) is in the inventory is skipped
\* as in the inventory, whatever the category of the run (iterations in
\* which no call failed; ids not already in the map).
InventoryNotScoped ==
    (/\ IsLoopStep
     /\ faults' = faults
     /\ ev'.outcome # "unresolved"
     /\ ev'.tmdb_id \notin alreadyRecommended
     /\ [tmdb_id |-> ev'.tmdb_id, media_type |-> StepMediaType]
           \in plexInventory)
    => ev'.outcome = "in_plex"

CacheGrowsOnly ==
    /\ Len(cache') >= Len(cache)
    /\ \A n \in 1..Len(cache) : cache'[n] = cache[n]

\* C22 as stated: the cache only grows, by exactly one row in a call that
\* missed the cache and resolved at the provider, by none in any other.
C22_CacheAppendOnly ==
    [][ /\ CacheGrowsOnly
        /\ IF IsLoopStep
           THEN Len(cache') = Len(cache)
                   + Count(ev'.searched /\ ev'.outcome # "unresolved")
           ELSE cache' = cache ]_vars

\* C22 amended: the cache only grows, by exactly one row in a call that
\* missed the cache and resolved at the provider unless the cache write
\* failed, by none in any other call.
C22_CacheAppendOnlyAmended ==
    [][ /\ CacheGrowsOnly
        /\ IF IsLoopStep
           THEN /\ Len(cache') = Len(cache)
                      + Count(ev'.searched /\ ev'.outcome # "unresolved"
                              /\ ev'.wrote)
                /\ (ev'.searched /\ ev'.outcome # "unresolved" /\ ~ev'.wrote)
                      => faults' > faults
                /\ ev'.wrote => (ev'.searched /\ ev'.outcome # "unresolved")
           ELSE cache' = cache ]_vars

\* C22 witness: a call has appended a second row for a key that had one.
C22_Witness ==
    /\ ev.op = "step" /\ ev.wrote
    /\ Len(cache) = 2
    /\ cache[1].title = cache[2].title
    /\ cache[1].year = cache[2].year
    /\ cache[1].media_type = cache[2].media_type

\* The medium a candidate medium stands for, or rejected.
CanonicalMedium(m) ==
    CASE m \in {"movie", "Movie", "MOVIE"} -> "movie"
      [] m \in {"tv", "TV", "Tv"} -> "tv"
      [] m \in {"show", "Show", "series", "Series"} -> "tv"
      [] OTHER -> "rejected"

\* C24: movie and tv are kept whatever their case, show and series become
\* tv; a candidate with another medium is skipped as unresolved without a
\* search call, a cache write or a history write.
C24_MediumNormalization ==
    [][ IsLoopStep =>
          LET m == CanonicalMedium(recs[idx].medium)
          IN  IF m # "rejected"
              THEN /\ StepMediaType = m
                   /\ ev'.outcome = "emitted" =>
                         resolved'[Len(resolved')].medium = m
              ELSE /\ ev'.outcome = "unresolved"
                   /\ ~ev'.searched /\ ~ev'.wrote
                   /\ cache' = cache
                   /\ history' = history
                   /\ resolved' = resolved ]_vars

\* C24 witness: a candidate with medium book was skipped without a search,
\* and the next one, a show, was emitted as tv.
C24_Witness ==
    /\ ev.op = "step" /\ ev.idx = 2 /\ ev.outcome = "emitted"
    /\ recs[1].medium = "book" /\ recs[2].medium = "Show"
    /\ runLog.resFailed = {1}
    /\ Len(cache) = 1
    /\ resolved[1].medium = "tv"

\* C26 (state): a candidate that failed to resolve has no item.
FailedStaysFailed == runLog.resFailed \cap Survivors = {}

\* C26 (step): every iteration of the loop is for the next candidate of the
\* list, and makes at most one search call (at most one cache row).
OneAttemptPerCandidate ==
    (pc = "loop" /\ pc' = "loop")
    => /\ idx' = idx + 1
       /\ ev'.op = "step" /\ ev'.idx = idx
       /\ Len(cache') <= Len(cache) + 1

\* C26: within a run each candidate is attempted once; one that failed to
\* resolve is not attempted again.
C26_NoRetries == []FailedStaysFailed /\ [][OneAttemptPerCandidate]_vars

\* C26 witness: the search call of the first candidate failed and the loop
\* went on; the same title, listed again, then resolved.
C26_Witness ==
    /\ pc = "done" /\ Len(recs) = 2
    /\ SameTitle(1, 2)
    /\ runLog.resFailed = {1}
    /\ Survivors = {2}

\* C28 (state): a run whose history read failed has only the ids it emitted
\* in its map, and goes through every candidate.
HistoryReadFailsOpen ==
    (runLog.valid /\ runLog.histReadFault)
    => /\ pc \in {"loop", "done"}
       /\ alreadyRecommended = EmittedIds
       /\ pc = "done" => idx = Len(recs) + 1

\* C28 (step): a candidate whose inventory check failed is emitted.
InventoryCheckFailsOpen ==
    (IsLoopStep /\ runLog'.invReadFault /\ ~runLog.invReadFault)
    => /\ ev'.outcome = "emitted"
       /\ Len(resolved') = Len(resolved) + 1
       /\ resolved'[Len(resolved')].tmdb_id = ev'.tmdb_id

\* C28: a failed history read leaves the run with an empty exclusion set, a
\* failed inventory check lets the candidate through; neither fails the run.
C28_StoreReadErrorsFailOpen ==
    []HistoryReadFailsOpen /\ [][InventoryCheckFailsOpen]_vars

\* C28 witness: a candidate that is in the inventory was emitted because its
\* inventory check failed.
C28_Witness ==
    /\ ev.op = "step" /\ ev.outcome = "emitted"
    /\ runLog.invReadFault
    /\ [tmdb_id |-> ev.tmdb_id, media_type |-> resolved[Len(resolved)].medium]
          \in plexInventory

\* The rows of table c that have the key of call r.
RowsOfKey(c, r) ==
    { i \in 1..Len(c) : /\ c[i].title = r.title
                        /\ c[i].year = r.year
                        /\ c[i].media_type = r.media_type }

\* The greatest element of a non-empty set of numbers.
Greatest(S) == CHOOSE n \in S : \A m \in S : m <= n

\* The result carries the columns of the row.
FromRow(res, row) ==
    /\ res.tmdb_id = row.tmdb_id
    /\ res.imdb_id = row.imdb_id
    /\ res.country = row.country
    /\ res.runtime_min = row.runtime_min

\* C23: a call whose key has rows in the cache is answered from the row
\* written last, also when rows of the key carry the same resolved_at; a
\* call finds nothing only when its key has no row (calls whose cache read
\* does not fail).
C23_LastWrittenRowReturned ==
    [][ (clock' = clock /\ got'.valid /\ got'.readOK) =>
          LET match == RowsOfKey(cache, req')
          IN  IF match = {}
              THEN ~got'.hit
              ELSE /\ got'.hit
                   /\ FromRow(got'.res, cache[Greatest(match)]) ]_vars

\* C25: a result that came from the cache has the id, external id, country
\* and runtime that the resolution which wrote a row of its key returned;
\* its genres and keywords are empty and its vote count is zero.
C25_CacheRoundTrip ==
    (got.valid /\ got.hit)
    => /\ \E i \in RowsOfKey(cache, req) : FromRow(got.res, cache[i].fresh)
       /\ got.res.genres = << >>
       /\ got.res.keywords = << >>
       /\ got.res.vote_count = 0
       /\ got.res.title = req.title
       /\ got.res.year = req.year
       /\ got.res.media_type = req.media_type

\* C25 witness: a hit on the only row of the cache, written by a resolution
\* whose details and keywords calls succeeded.
C25_Witness ==
    /\ got.valid /\ got.hit
    /\ Len(cache) = 1
    /\ cache[1].fresh.runtime_min = 170
    /\ cache[1].fresh.country = "US"
    /\ cache[1].fresh.imdb_id = "tt0113277"
    /\ got.res.runtime_min = 170

----------------------------------------------------------------------------
(* Properties of the published output and of the inventory snapshot *)

\* The category runs of a label that are completed.
CompletedRuns(label) ==
    { i \in 1..Len(categoryRuns) : /\ categoryRuns[i].label = label
                                   /\ categoryRuns[i].status = "completed" }

\* C27: at every time, GET /v1/recs/{label}/latest answers not_found for a
\* category that has no completed run, and answers with the resolved output
\* last published for the category once it has one, also while a newer run
\* of the category is running or has failed.
C27_LatestRecsServed ==
    \A label \in Labels :
        LET resp == handleLatestRecs(categoryRuns, files, label)
        IN  IF CompletedRuns(label) = {}
            THEN resp.code = 404
            ELSE /\ resp.code = 200
                 /\ resp.body = files[ResolvedJSONPath(label)].items

\* The rows of a list of inventory items.
InventoryRowsOf(items) == { InventoryRow(items[n]) : n \in 1..Len(items) }

\* C29: in a batch in which the fetch of every section failed, the inventory
\* table is the one the batch found.
C29_SnapshotKeptWhenUnreachable ==
    (run.fetch.valid /\ ~run.fetch.moviesOK /\ ~run.fetch.showsOK)
    => plexInventory = run.fetch.old

\* C30: in a batch in which the fetch of every section succeeded and no
\* statement of the store failed for another reason than the data, the
\* inventory table holds exactly the (id, medium) pairs of the fetched list,
\* lists with a repeated pair included.
C30_StoredInventoryIsFetchedSet ==
    (/\ run.fetch.valid
     /\ run.fetch.moviesOK /\ run.fetch.showsOK
     /\ run.fetch.storeOK)
    => plexInventory = InventoryRowsOf(run.fetch.items)

\* A row or a result without runtime, country and external id.
Degraded(x) == x.runtime_min = 0 /\ x.country = "" /\ x.imdb_id = ""

\* A step that is a call of SearchAndResolve.
IsCall == clock' = clock /\ got'.valid

\* C31 as stated: once a degraded row of a key is in the cache, every call
\* of the key is answered from the cache with the empty fields, and the
\* provider is not called.
C31_DegradedEntryIsFinal ==
    [][ (IsCall /\ \E i \in RowsOfKey(cache, req') : Degraded(cache[i]))
        => /\ got'.hit
           /\ Degraded(got'.res)
           /\ cache' = cache ]_vars

\* C31 amended: while the rows of a key that carry its greatest resolved_at
\* are degraded, every call of the key whose cache read succeeds is answered
\* from one of them with the empty fields, and the provider is not called,
\* whatever its details call would answer.
C31_DegradedEntryIsFinalAmended ==
    [][ (/\ IsCall /\ got'.readOK
         /\ GetTitleResolution(cache, req'.title, req'.year,
                               req'.media_type) # {}
         /\ \A row \in GetTitleResolution(cache, req'.title, req'.year,
                                          req'.media_type) : Degraded(row))
        => /\ got'.hit
           /\ Degraded(got'.res)
           /\ \E i \in RowsOfKey(cache, req') :
                 got'.res.tmdb_id = cache[i].tmdb_id
           /\ cache' = cache ]_vars

\* C31 witness: a call whose details call would succeed was answered from
\* the degraded row of an earlier instant.
C31_Witness ==
    /\ got.valid /\ got.hit
    /\ req.media_type = "movie" /\ req.detailsOK
    /\ Degraded(got.res)
    /\ Len(cache) = 1
    /\ cache[1].resolved_at # NowUTC(clock)

\* C32 (state): a caller whose call of Run has returned does not hold o.mu.
ReleasedOnReturn == \A c \in Callers : callers[c] = "returned" => mu # c

\* C32 (step): the step in which Run returns, with or without an error,
\* leaves o.mu unlocked.
ReleasedByReturn ==
    \A c \in Callers :
        (callers[c] = "running" /\ callers'[c] = "returned")
        => (mu = c /\ mu' = Unlocked)

JobOver(j) == ~(InBatch /\ run.jobID = j)

\* C33 (state): a job run is running during its batch; once Run has returned
\* it is completed, unless the catalog client could not be created; it is
\* failed only in that case, and then has no category run.
JobRunSettled ==
    \A j \in 1..Len(jobRuns) :
        /\ ~JobOver(j) => jobRuns[j].status = "running"
        /\ (JobOver(j) /\ ~jobRuns[j].clientErr)
              => jobRuns[j].status = "completed"
        /\ jobRuns[j].status = "failed"
              => /\ jobRuns[j].clientErr
                 /\ \A i \in 1..Len(categoryRuns) :
                       categoryRuns[i].job_id # j

\* C33 (step): a job run is created with status running.
JobRunCreatedRunning ==
    Len(jobRuns') > Len(jobRuns)
    => /\ Len(jobRuns') = Len(jobRuns) + 1
       /\ jobRuns'[Len(jobRuns')].status = "running"

\* C33: a job run is created running and is completed once the category
\* loop has finished, also when every category failed; it is failed only
\* when the catalog client could not be created, without any category run.
C33_JobRunLifecycle == []JobRunSettled /\ [][JobRunCreatedRunning]_vars

\* The number of elements of sequence q for which test holds.
Occurrences(q, test(_)) == Cardinality({ k \in 1..Len(q) : test(q[k]) })

\* C34 (state): every item has medium movie or tv, the one its candidate's
\* medium stands for.
ItemMediumNormalized ==
    \A k \in Items :
        /\ resolved[k].medium \in {"movie", "tv"}
        /\ resolved[k].medium = CanonicalMedium(recs[resolved[k].src].medium)

\* C34 (step): a publication that did not fail has put every id of the
\* output in the movies collection as often as the output has it as a movie,
\* in the series collection as often as the output has it as tv, and the two
\* collections have as many entries as the output has items.
EveryItemPlaced ==
    (pc = "done" /\ files' # files /\ faults' = faults)
    => LET hasMovie == \E k \in Items : resolved[k].medium = "movie"
           hasTV == \E k \in Items : resolved[k].medium = "tv"
           movies == IF hasMovie
                     THEN files'[PMMYAMLPath("Movies", categoryLabel)].items
                     ELSE << >>
           series == IF hasTV
                     THEN files'[PMMYAMLPath("Series", categoryLabel)].items
                     ELSE << >>
       IN  /\ Len(movies) + Len(series) = Len(resolved)
           /\ \A x \in Ids :
                 /\ Occurrences(movies, LAMBDA e : e = x)
                      = Occurrences(resolved,
                           LAMBDA it : it.tmdb_id = x /\ it.medium = "movie")
                 /\ Occurrences(series, LAMBDA e : e = x)
                      = Occurrences(resolved,
                           LAMBDA it : it.tmdb_id = x /\ it.medium = "tv")

\* C34: every item of an output has the normalized medium of its candidate,
\* movie or tv, and the publisher puts each item in exactly one of the two
\* collections.
C34_ItemsPlacedInOneCollection ==
    []ItemMediumNormalized /\ [][EveryItemPlaced]_vars

\* C34 witness: an output with a movie and a show (from a candidate with
\* medium Show) has been published, one id in each collection.
C34_Witness ==
    /\ pc = "done" /\ result = "output"
    /\ Len(resolved) = 2
    /\ recs[resolved[2].src].medium = "Show"
    /\ files[PMMYAMLPath("Movies", categoryLabel)].items = <<1>>
    /\ files[PMMYAMLPath("Series", categoryLabel)].items = <<2>>
    /\ files[ResolvedJSONPath(categoryLabel)].exists

\* C35 (state): in every history row first_seen_at is not later than
\* last_seen_at.
FirstSeenNotAfterLastSeen ==
    \A r \in history : Instant(r.first_seen_at) <= Instant(r.last_seen_at)

\* C35 (step): the row of a key keeps its first_seen_at, and its
\* last_seen_at does not decrease.
SeenTimesMonotone ==
    \A r \in history : \A r2 \in history' :
        HistoryKey(r2) = HistoryKey(r)
        => /\ r2.first_seen_at = r.first_seen_at
           /\ Instant(r2.last_seen_at) >= Instant(r.last_seen_at)

\* C35: with a clock that does not go backwards, every history row has
\* first_seen_at not later than last_seen_at at every moment, first_seen_at
\* never changes once the row exists, and last_seen_at never decreases.
C35_SeenTimesOrdered ==
    []FirstSeenNotAfterLastSeen /\ [][SeenTimesMonotone]_vars

\* C35 witness: one key was recorded again after its first record, so its
\* row has first_seen_at earlier than last_seen_at, and another key was
\* first recorded after that row was created.
C35_Witness ==
    \E r1, r2 \in history :
        /\ HistoryKey(r1) # HistoryKey(r2)
        /\ Instant(r1.first_seen_at) < Instant(r1.last_seen_at)
        /\ r2.first_seen_at = r2.last_seen_at
        /\ Instant(r1.first_seen_at) < Instant(r2.first_seen_at)

====
